---- MODULE Spec2Model ----
\* A model of the ZSquirrel frame-counting and animation core:
\*   utils/meters.py            Meter, Timer, Clock
\*   utils/state_machines.py    StateCondition, StateMachine
\*   animations/animations.py   Animation, AnimationMachine
\*   animations/animation_interface.py   AnimationGraphics
\* Python's None is the string "None"; objects are records of their fields.
EXTENDS Integers, Sequences, FiniteSets, TLC

VARIABLES
    mt,         \* a Meter under test: [minimum, maximum, value]
    mt_call,    \* the last call made on mt: [op, n, before]
    \* --- one entity's animation objects
    states,             \* StateMachine.states: state name -> list of StateCondition
    animations,         \* AnimationGraphics.animations: state name -> step durations
    sounds,             \* AnimationMachine.sounds: state name -> list of cues
    state,              \* StateMachine.state
    buffer_state,       \* StateMachine.buffer_state
    animation_meter,    \* AnimationGraphics.animation_meter
    animation_cycles,   \* AnimationGraphics.animation_cycles
    layers,     \* AnimationGraphics.layers, the list handed to the renderer
    events,     \* the events entity.handle_event received during the last call
    sound_log,  \* the play()/stop() calls on sound files during the last call
    plays,      \* per sound file, play() calls since the current state was entered
    last,       \* the last call and what it found: [op, arg, state, buffer_state,
                \* cycles, tests], tests being what the conditions' methods return
    n_updates,  \* graphics.update() calls since the last reset_meter()
    entered_by, \* how the current state was entered: "set_state" or "update"
    waited,     \* the buffered transition being waited for, frame by frame:
                \* [to, at, age, alone], or NoWait
    \* --- the entity's EventHandler
    ev,         \* [events, heap, timers, to_add, to_remove, ticks, handled, trace]:
                \* the chained event dicts, the Timer objects queue() made, the
                \* handler's Clock, the tick() calls made on it, the handle()
                \* calls with the tick they were made in, and what the last
                \* tick() did
    \* --- a Clock and its timers
    tm,         \* the Timer objects: timer -> [minimum, maximum, value, temp, on_tick, on_done]
    timers,     \* Clock.timers
    to_add,     \* Clock.to_add
    to_remove,  \* Clock.to_remove
    tk,         \* the last Clock.tick(): [list, old, staged, before, trace]: timers
                \* after the merge, how many of them were in timers before, what
                \* was in to_remove and in cancelled, and the calls made
    cancelled,  \* the timers remove_timer(t) was called for while t was in timers +
                \* to_add, and add_timers(t) was not called for since
    hist,       \* per timer, since add_timers(t) was last called for it: [added,
                \* start, ticks], start the timer's value then and ticks one entry
                \* per Clock.tick() call since: [ticked, done, value, held]
    \* --- a call of a function or constructor that touches no object above
    call,       \* the last such call and its arguments
    ret         \* what it returned, or ValueError when it raised that

mvars == <<mt, mt_call>>
cfgvars == <<states, animations, sounds, ev>>
ovars == <<states, animations, sounds, state, buffer_state, animation_meter,
           animation_cycles, layers, events, sound_log, plays, last, n_updates, entered_by,
           waited>>
avars == <<ovars, ev>>
cvars == <<tm, timers, to_add, to_remove, tk, cancelled, hist>>
pvars == <<call, ret>>
vars == <<mvars, avars, cvars, pvars>>

None == "None"

\* ---------------------------------------------------------------- bounds
MaxMag == 2        \* Meter bounds and values range over -MaxMag..MaxMag
MaxShift == 7      \* shift(n) is called with n in -MaxShift..MaxShift
MaxCycles == 3     \* graphics.update() is called while animation_cycles < MaxCycles
MaxDuration == 2   \* an AnimationStep lasts 1..MaxDuration frames
MaxTimers == 2     \* timers + to_add hold at most MaxTimers entries
MaxStaged == 1     \* remove_timer is called between ticks while to_remove holds < MaxStaged
MaxTimerDuration == 2   \* a Timer's duration is in 1..MaxTimerDuration
MaxTicks == 5      \* Clock.tick() is called while no timer has seen MaxTicks calls since added
MaxChain == 3      \* queue() is called with 1..MaxChain events
MaxChainTicks == 7 \* the handler's clock is ticked MaxChainTicks times after queue()
MaxSteps == 3      \* an Animation handed to get_current_step has 1..MaxSteps steps
MaxSide == 2       \* a layer is 1..MaxSide wide and high
MaxOffset == 1     \* a layer's offsets and rotate lie in -MaxOffset..MaxOffset
MaxArg == 1        \* a number handed to a constructor lies in -MaxArg..MaxArg
MaxConds == 2      \* the first state's condition list has at most MaxConds entries

StateNames == {"default", "b"}

\* ================================================================ Meter
\* Meter.fix_value: saturate the value into [minimum, maximum]; the two tests
\* run in this order, the second on the result of the first.
fix_value(m) ==
    LET m1 == IF m.value > m.maximum THEN [m EXCEPT !.value = m.maximum] ELSE m
    IN  IF m1.value < m1.minimum THEN [m1 EXCEPT !.value = m1.minimum] ELSE m1

\* the value property setter: store, then fix_value()
set_value(m, v) == fix_value([m EXCEPT !.value = v])

\* the maximum property setter: store, then fix_value()
set_maximum(m, v) == fix_value([m EXCEPT !.maximum = v])

\* the minimum property setter: a value past the maximum is replaced by the
\* maximum; store, then fix_value()
set_minimum(m, v) ==
    fix_value([m EXCEPT !.minimum = IF v > m.maximum THEN m.maximum ELSE v])

\* Meter(name, minimum, value, maximum) for maximum >= minimum (integers)
Meter_init(minimum, value, maximum) ==
    set_value([minimum |-> minimum, maximum |-> maximum, value |-> value], value)

get_span(m) == m.maximum - m.minimum

\* Meter.is_full with > for ==
is_full_above(m) == m.value > m.maximum

is_full(m) == m.value = m.maximum

is_empty(m) == m.value = m.minimum

\* Meter.reset: _value = minimum
Meter_reset(m) == [m EXCEPT !.value = m.minimum]

\* Meter.refill: _value = maximum
Meter_refill(m) == [m EXCEPT !.value = m.maximum]

\* Meter.next: v = int(value // 1) + 1 (the floor of an integer is itself);
\* past the maximum, span + 1 is subtracted; the result goes through the setter.
Meter_next(m) ==
    LET v == m.value + 1
        w == IF v > m.maximum THEN v - (get_span(m) + 1) ELSE v
    IN  set_value(m, w)

\* Meter.prev with a wrap that forgets the + 1
Meter_prev_short_wrap(m) ==
    LET v == m.value - 1
        w == IF v < m.minimum THEN v + get_span(m) ELSE v
    IN  set_value(m, w)

\* Meter.prev: the mirror image of next
Meter_prev(m) ==
    LET v == m.value - 1
        w == IF v < m.minimum THEN v + (get_span(m) + 1) ELSE v
    IN  set_value(m, w)

Abs(x) == IF x < 0 THEN -x ELSE x

\* Python's a % b for integers a >= 0 and b # 0: the result has the sign of b
PyMod(a, b) == IF b > 0 THEN a % b ELSE 0 - ((0 - a) % (0 - b))

RECURSIVE Meter_repeat(_, _, _)
\* `for x in range(k): self.next()` (up = TRUE) or self.prev() (up = FALSE)
Meter_repeat(m, k, up) ==
    IF k <= 0 THEN m
    ELSE Meter_repeat(IF up THEN Meter_next(m) ELSE Meter_prev(m), k - 1, up)

\* Meter.shift(val): dv = abs(val) % (span + 1) calls of next() or prev(); with
\* span + 1 = 0 the modulo raises ZeroDivisionError before anything is changed
Meter_shift(m, val) ==
    IF get_span(m) + 1 = 0 THEN m
    ELSE LET dv == PyMod(Abs(val), get_span(m) + 1)
         IN  IF val > 0 THEN Meter_repeat(m, dv, TRUE)
             ELSE IF val < 0 THEN Meter_repeat(m, dv, FALSE)
             ELSE m

\* ---------------------------------------------------------------- Meter calls
MeterRange == (0 - MaxMag)..MaxMag

\* the meter after a successful construction Meter(name, minimum, value, maximum)
MeterStart ==
    /\ \E mn \in MeterRange, v \in MeterRange, mx \in MeterRange :
        /\ mx >= mn
        /\ mt = Meter_init(mn, v, mx)
    /\ mt_call = [op |-> "init", n |-> 0, before |-> mt.value]

MeterNext ==
    /\ mt' = Meter_next(mt)
    /\ mt_call' = [op |-> "next", n |-> 1, before |-> mt.value]
    /\ UNCHANGED <<avars, cvars, pvars>>

MeterPrev ==
    /\ mt' = Meter_prev(mt)
    /\ mt_call' = [op |-> "prev", n |-> 1, before |-> mt.value]
    /\ UNCHANGED <<avars, cvars, pvars>>

MeterShift ==
    \E n \in (0 - MaxShift)..MaxShift :
        /\ mt' = Meter_shift(mt, n)
        /\ mt_call' = [op |-> "shift", n |-> n, before |-> mt.value]
        /\ UNCHANGED <<avars, cvars, pvars>>

\* meter.value = v
MeterSetValue ==
    \E v \in MeterRange :
        /\ mt' = set_value(mt, v)
        /\ mt_call' = [op |-> "value", n |-> v, before |-> mt.value]
        /\ UNCHANGED <<avars, cvars, pvars>>

\* meter.minimum = v
MeterSetMinimum ==
    \E v \in MeterRange :
        /\ mt' = set_minimum(mt, v)
        /\ mt_call' = [op |-> "minimum", n |-> v, before |-> mt.value]
        /\ UNCHANGED <<avars, cvars, pvars>>

\* meter.maximum = v
MeterSetMaximum ==
    \E v \in MeterRange :
        /\ mt' = set_maximum(mt, v)
        /\ mt_call' = [op |-> "maximum", n |-> v, before |-> mt.value]
        /\ UNCHANGED <<avars, cvars, pvars>>

MeterRefill ==
    /\ mt' = Meter_refill(mt)
    /\ mt_call' = [op |-> "refill", n |-> 0, before |-> mt.value]
    /\ UNCHANGED <<avars, cvars, pvars>>

MeterReset ==
    /\ mt' = Meter_reset(mt)
    /\ mt_call' = [op |-> "reset", n |-> 0, before |-> mt.value]
    /\ UNCHANGED <<avars, cvars, pvars>>

\* next() called once per value of the meter, maximum - minimum + 1 times
MeterNextRound ==
    /\ mt' = Meter_repeat(mt, get_span(mt) + 1, TRUE)
    /\ mt_call' = [op |-> "next round", n |-> get_span(mt) + 1, before |-> mt.value]
    /\ UNCHANGED <<avars, cvars, pvars>>

\* prev() called as many times
MeterPrevRound ==
    /\ mt' = Meter_repeat(mt, get_span(mt) + 1, FALSE)
    /\ mt_call' = [op |-> "prev round", n |-> get_span(mt) + 1, before |-> mt.value]
    /\ UNCHANGED <<avars, cvars, pvars>>

\* next() then prev()
MeterNextPrev ==
    /\ mt' = Meter_prev(Meter_next(mt))
    /\ mt_call' = [op |-> "next prev", n |-> 2, before |-> mt.value]
    /\ UNCHANGED <<avars, cvars, pvars>>

\* prev() then next()
MeterPrevNext ==
    /\ mt' = Meter_next(Meter_prev(mt))
    /\ mt_call' = [op |-> "prev next", n |-> 2, before |-> mt.value]
    /\ UNCHANGED <<avars, cvars, pvars>>

\* a meter nobody calls
MeterIdle ==
    /\ mt = Meter_init(0, 0, 0)
    /\ mt_call = [op |-> "init", n |-> 0, before |-> 0]

\* ================================================================ Animation
RECURSIVE get_frame_count(_)
\* Animation.get_frame_count: the sum of the steps' durations
get_frame_count(steps) ==
    IF steps = <<>> THEN 0 ELSE Head(steps) + get_frame_count(Tail(steps))

RECURSIVE current_step_from(_, _, _)
\* the loop of Animation.get_current_step from step i on, frame_num being what
\* is left of the argument; 0 when the loop ends without returning (None)
current_step_from(steps, frame_num, i) ==
    IF i > Len(steps) THEN 0
    ELSE IF frame_num - steps[i] <= 0 THEN i
    ELSE current_step_from(steps, frame_num - steps[i], i + 1)

\* Animation.get_current_step with the test of get_step_index (< 0)
get_current_step_strict(steps, frame_num) ==
    LET below == {i \in DOMAIN steps : frame_num - get_frame_count(SubSeq(steps, 1, i)) < 0}
    IN  IF below = {} THEN 0 ELSE CHOOSE i \in below : \A j \in below : i <= j

\* Animation.get_current_step(frame_num): the place of the step in steps,
\* counted from 1
get_current_step(steps, frame_num) == current_step_from(steps, frame_num, 1)

RECURSIVE step_index_from(_, _, _)
\* the loop of Animation.get_step_index with i steps passed, frame_num being
\* what is left of the argument; -1 when the loop ends without returning
\* (None)
step_index_from(steps, frame_num, i) ==
    IF i >= Len(steps) THEN 0 - 1
    ELSE IF frame_num - steps[i + 1] < 0 THEN i
    ELSE step_index_from(steps, frame_num - steps[i + 1], i + 1)

\* Animation.get_step_index(frame_num): an index of the Python list steps,
\* counted from 0
get_step_index(steps, frame_num) == step_index_from(steps, frame_num, 0)

\* AnimationLayer.__init__
AnimationLayer(size, position, offset, mirror, rotate) ==
    [size |-> size, position |-> position, offset |-> offset,
     mirror |-> mirror, rotate |-> rotate]

\* AnimationLayer.get_mirror_layer moving the offset by the size without
\* negating it first
get_mirror_layer_shifts(layer, mirror) ==
    AnimationLayer(layer.size, layer.position,
        <<IF mirror[1] THEN layer.offset[1] - layer.size[1] ELSE layer.offset[1],
          IF mirror[2] THEN layer.offset[2] - layer.size[2] ELSE layer.offset[2]>>,
        <<IF mirror[1] THEN ~layer.mirror[1] ELSE layer.mirror[1],
          IF mirror[2] THEN ~layer.mirror[2] ELSE layer.mirror[2]>>,
        layer.rotate)

\* AnimationLayer.get_mirror_layer(mirror)
get_mirror_layer(layer, mirror) ==
    LET x_flip == mirror[1]
        y_flip == mirror[2]
        w == layer.size[1]
        h == layer.size[2]
        ox == IF x_flip THEN (layer.offset[1] * (0 - 1)) - w ELSE layer.offset[1]
        oy == IF y_flip THEN (layer.offset[2] * (0 - 1)) - h ELSE layer.offset[2]
        new_mx == IF x_flip THEN ~layer.mirror[1] ELSE layer.mirror[1]
        new_my == IF y_flip THEN ~layer.mirror[2] ELSE layer.mirror[2]
    IN  AnimationLayer(layer.size, layer.position, <<ox, oy>>,
                       <<new_mx, new_my>>, layer.rotate)

\* ---------------------------------------------------------------- box data
\* The boxes of a data dict are dicts that copy() and an item assignment tell
\* apart, so they live in a heap: a sequence of dicts, a dict being known by
\* its place in it. A data dict maps its keys to places in the heap; a step is
\* [duration, layers, data] and an animation [steps, data].

\* the body of the loop of get_mirror_data negating the position without
\* moving it by the size
mirror_item_unshifted(item, mirror) ==
    IF "position" \in DOMAIN item
    THEN [item EXCEPT !.position =
             <<IF mirror[1] THEN 0 - item.position[1] ELSE item.position[1],
               IF mirror[2] THEN 0 - item.position[2] ELSE item.position[2]>>]
    ELSE item

\* the body of the loop of get_mirror_data once item is bound: item's position
\* flipped about its size, or about (radius, radius)
mirror_item(item, mirror) ==
    LET w == IF "size" \in DOMAIN item THEN item.size[1] ELSE item.radius
        h == IF "size" \in DOMAIN item THEN item.size[2] ELSE item.radius
    IN  IF "position" \in DOMAIN item
        THEN LET x == IF mirror[1] THEN (item.position[1] * (0 - 1)) - w
                      ELSE item.position[1]
                 y == IF mirror[2] THEN (item.position[2] * (0 - 1)) - h
                      ELSE item.position[2]
             IN  [item EXCEPT !.position = <<x, y>>]
        ELSE item

RECURSIVE mirror_from_uncopied(_, _, _, _, _)
\* the loop of get_mirror_data with new_data[key] = data[key]
mirror_from_uncopied(heap, data, new_data, keys, mirror) ==
    IF keys = {} THEN [heap |-> heap, data |-> new_data]
    ELSE LET key == CHOOSE k \in keys : TRUE
             item == data[key]
         IN  mirror_from_uncopied([heap EXCEPT ![item] = mirror_item(@, mirror)],
                                  data, new_data @@ (key :> item),
                                  keys \ {key}, mirror)

RECURSIVE mirror_from(_, _, _, _, _)
\* the loop of get_mirror_data over the keys still to come: new_data[key] is a
\* copy of data[key], a new dict, and the position is assigned on the copy
mirror_from(heap, data, new_data, keys, mirror) ==
    IF keys = {} THEN [heap |-> heap, data |-> new_data]
    ELSE LET key == CHOOSE k \in keys : TRUE
             copied == Append(heap, heap[data[key]])
             item == Len(copied)
         IN  mirror_from([copied EXCEPT ![item] = mirror_item(@, mirror)],
                         data, new_data @@ (key :> item),
                         keys \ {key}, mirror)

\* Animation.get_mirror_data(data, mirror): the heap after it and new_data
get_mirror_data(heap, data, mirror) ==
    mirror_from(heap, data, <<>>, DOMAIN data, mirror)

\* AnimationStep.__init__
AnimationStep(duration, step_layer_list, data) ==
    [duration |-> duration, layers |-> step_layer_list, data |-> data]

\* AnimationStep.get_mirror_step(mirror): the heap after it and the new step
get_mirror_step(heap, step, mirror) ==
    LET new_layers == [j \in DOMAIN step.layers |-> get_mirror_layer(step.layers[j], mirror)]
        d == get_mirror_data(heap, step.data, mirror)
    IN  [heap |-> d.heap, step |-> AnimationStep(step.duration, new_layers, d.data)]

RECURSIVE mirror_steps(_, _, _, _)
\* [s.get_mirror_step(mirror) for s in self.steps] from step i on
mirror_steps(heap, steps, new_steps, mirror) ==
    IF Len(new_steps) = Len(steps) THEN [heap |-> heap, steps |-> new_steps]
    ELSE LET m == get_mirror_step(heap, steps[Len(new_steps) + 1], mirror)
         IN  mirror_steps(m.heap, steps, Append(new_steps, m.step), mirror)

\* Animation.__init__
Animation(steps, data) == [steps |-> steps, data |-> data]

\* Animation.get_mirror_animation(name, mirror): the heap after it and the new
\* animation
get_mirror_animation(heap, a, mirror) ==
    LET new_steps == mirror_steps(heap, a.steps, <<>>, mirror)
        new_data == get_mirror_data(new_steps.heap, a.data, mirror)
    IN  [heap |-> new_data.heap, animation |-> Animation(new_steps.steps, new_data.data)]

\* list.reverse()
Reversed(l) == [i \in DOMAIN l |-> l[Len(l) + 1 - i]]

\* Animation.get_reverse_animation(name): a new list of the same steps,
\* reversed, and a copy of the data dict holding the same boxes
get_reverse_animation(heap, a) ==
    [heap |-> heap, animation |-> Animation(Reversed(a.steps), a.data)]

\* the durations of an animation's steps
durations(a) == [i \in DOMAIN a.steps |-> a.steps[i].duration]

\* a data dict with its boxes read from the heap
boxes_of(heap, data) == [k \in DOMAIN data |-> heap[data[k]]]

\* an animation as it reads at some moment: its steps' durations, layers and
\* boxes and its own boxes
contents(heap, a) ==
    [steps |-> [i \in DOMAIN a.steps |->
                    [duration |-> a.steps[i].duration, layers |-> a.steps[i].layers,
                     data |-> boxes_of(heap, a.steps[i].data)]],
     data |-> boxes_of(heap, a.data)]

\* ================================================================ the objects
\* One entity's machine, graphics and the calls it received, as one record
\*   o = [state, buffer_state, meter, cycles, layers, events, log]
\* events: what entity.handle_event got; log: play()/stop() calls on sound files.

\* AnimationGraphics.get_animation_state, with get_state wired to the machine's
\* get_state (set_animation_machine does so before its first set_state)
get_animation_state(o) == o.state

\* The layers of step i of the animation of state s. The animations variable
\* holds the steps' durations; a step's layers are those of sprite sheet cells:
\* step i has one layer, or two when i is even, at the cells of column i, and
\* the animation of "b" is a mirrored one.
step_layers(s, i) ==
    [j \in 1..(2 - (i % 2)) |->
        AnimationLayer(<<1, 1>>, <<i, j>>, <<0, 0>>, <<s = "b", FALSE>>, 0)]

\* the tuple (Rect(size, position), offset, mirror, rotate) of one layer
project(layer) ==
    [rect |-> [size |-> layer.size, position |-> layer.position],
     offset |-> layer.offset, mirror |-> layer.mirror, rotate |-> layer.rotate]

\* AnimationGraphics.update_image_layers: layers = [], then the tuples of the
\* current step's layers. A step is found whenever the animation has steps and
\* the meter's value is at most its frame count; with no step found the loop over
\* step.layers raises, leaving layers empty.
update_image_layers(o) ==
    LET st == get_animation_state(o)
        step == IF st \in DOMAIN animations
                THEN get_current_step(animations[st], o.meter.value)
                ELSE 0
    IN  [o EXCEPT !.layers =
            IF step = 0 THEN <<>>
            ELSE [j \in DOMAIN step_layers(st, step) |-> project(step_layers(st, step)[j])]]

\* AnimationGraphics.reset_meter that leaves the layers as they were
reset_meter_keeps_layers(o) ==
    LET st == get_animation_state(o)
        m0 == Meter_reset(o.meter)
    IN  IF st \in DOMAIN animations
        THEN [o EXCEPT !.cycles = 0,
                       !.meter = set_maximum(m0, get_frame_count(animations[st]) - 1)]
        ELSE [o EXCEPT !.cycles = 0, !.meter = m0]

\* AnimationGraphics.reset_meter that leaves the meter's maximum as it was
reset_meter_keeps_maximum(o) ==
    update_image_layers([o EXCEPT !.cycles = 0, !.meter = Meter_reset(o.meter)])

\* AnimationGraphics.reset_meter
reset_meter(o) ==
    LET st == get_animation_state(o)
        m0 == Meter_reset(o.meter)
        o1 == [o EXCEPT !.cycles = 0, !.meter = m0]
    IN  IF st \in DOMAIN animations
        THEN update_image_layers(
                 [o1 EXCEPT !.meter = set_maximum(m0, get_frame_count(animations[st]) - 1)])
        ELSE o1

\* AnimationGraphics.update that tests is_full() after advancing the meter
Graphics_update_counts_after(o) ==
    LET m == Meter_next(o.meter)
    IN  update_image_layers(
            [o EXCEPT !.cycles = IF is_full(m) THEN @ + 1 ELSE @, !.meter = m])

\* AnimationGraphics.update: count a cycle when the meter was full, advance the
\* meter, then update_image_layers()
Graphics_update(o) ==
    update_image_layers(
        [o EXCEPT !.cycles = IF is_full(o.meter) THEN @ + 1 ELSE @,
                  !.meter = Meter_next(@)])

\* ================================================================ StateMachine
\* StateCondition.test: test_condition is bool(method()); r is what method() gave
test(c, r) == c.test_condition = r

\* StateMachine.conditions falling back on the list of "default" for a state
\* that is no key of states
conditions_or_default(o) ==
    IF o.state \in DOMAIN states THEN states[o.state] ELSE states["default"]

\* StateMachine.conditions; a state that is no key of states gives None, which
\* update() only tests for truth, like the empty list: both are <<>> here
conditions(o) == IF o.state \in DOMAIN states THEN states[o.state] ELSE <<>>

\* AnimationMachine.get_state_sounds
get_state_sounds(s) == IF s \in DOMAIN sounds THEN sounds[s] ELSE <<>>

RECURSIVE stop_cues(_, _, _)
\* the loop of handle_sound_off; a stop() call is logged with the state the
\* machine is in when it is made
stop_cues(log, cues, at) ==
    IF cues = <<>> THEN log
    ELSE stop_cues(IF Head(cues).cancel
                   THEN Append(log, [op |-> "stop", file |-> Head(cues).file,
                                     state |-> at])
                   ELSE log,
                   Tail(cues), at)

\* AnimationMachine.handle_sound_off that stops every cue of the state
handle_sound_off_every_cue(o, s) ==
    [o EXCEPT !.log = @ \o [i \in DOMAIN get_state_sounds(s) |->
                                [op |-> "stop", file |-> get_state_sounds(s)[i].file,
                                 state |-> o.state]]]

\* AnimationMachine.handle_sound_off
handle_sound_off(o, s) ==
    [o EXCEPT !.log = stop_cues(@, get_state_sounds(s), o.state)]

RECURSIVE play_cues(_, _, _, _)
play_cues(log, cues, frame, cycles) ==
    IF cues = <<>> THEN log
    ELSE LET item == Head(cues)
             play_frame == frame = item.offset
             play_sound == IF item.loop THEN play_frame
                           ELSE play_frame /\ cycles = 0
         IN  play_cues(IF play_sound
                       THEN Append(log, [op |-> "play", file |-> item.file])
                       ELSE log,
                       Tail(cues), frame, cycles)

\* AnimationMachine.handle_sound that forgets the cycle count
handle_sound_every_cycle(o, s) ==
    [o EXCEPT !.log = play_cues(@, get_state_sounds(s), o.meter.value, 0)]

\* AnimationMachine.handle_sound
handle_sound(o, s) ==
    [o EXCEPT !.log = play_cues(@, get_state_sounds(s), o.meter.value, o.cycles)]

\* AnimationMachine.animation_done with >= for >
animation_done_at_zero(o) == o.cycles >= 0

\* AnimationMachine.animation_done
animation_done(o) == o.cycles > 0

change_state_event(s, old) ==
    [name |-> "change_state", state |-> s, last_state |-> old]

\* entity.handle_event(event): the event is delivered at once, and what a
\* listener can read of the graphics and the machine at that moment is kept
\* with it as `seen`
handle_event(o, event) ==
    [o EXCEPT !.events =
        Append(@, [name |-> event.name, state |-> event.state,
                   last_state |-> event.last_state,
                   seen |-> [cycles |-> o.cycles, meter |-> o.meter,
                             buffer_state |-> o.buffer_state]])]

\* AnimationMachine.set_state without its last line
set_state_keeps_buffer(o, s) ==
    LET old == o.state
        o1 == handle_sound_off(o, old)
        o2 == [o1 EXCEPT !.state = s]
        o3 == handle_event(o2, change_state_event(s, old))
    IN  reset_meter(o3)

\* AnimationMachine.set_state
set_state(o, s) ==
    LET old == o.state
        o1 == handle_sound_off(o, old)
        o2 == [o1 EXCEPT !.state = s]
        o3 == handle_event(o2, change_state_event(s, old))
        o4 == reset_meter(o3)
    IN  [o4 EXCEPT !.buffer_state = None]

\* what update() does with one condition c whose method() gave r
act_on(o, c, r) ==
    IF test(c, r)
    THEN IF ~c.buffer THEN set_state(o, c.to_state)
         ELSE [o EXCEPT !.buffer_state = c.to_state]
    ELSE o

RECURSIVE run_conditions(_, _, _, _)
\* `for c in self.conditions:` over the list the loop started with; env[i] is
\* what the i-th condition's method returns when the loop reaches it
run_conditions(o, conds, env, i) ==
    IF i > Len(conds) THEN o
    ELSE run_conditions(act_on(o, conds[i], env[i]), conds, env, i + 1)

\* StateMachine.update that clears buffer_state before handing it to set_state
StateMachine_update_clears_first(o, env) ==
    LET conds == conditions(o)
    IN  IF conds # <<>>
        THEN IF o.buffer_state # None /\ animation_done(o)
             THEN set_state([o EXCEPT !.buffer_state = None], None)
             ELSE run_conditions(o, conds, env, 1)
        ELSE o

\* StateMachine.update, with buffer_check = animation_done and the subclass's
\* set_state
StateMachine_update(o, env) ==
    LET conds == conditions(o)
    IN  IF conds # <<>>
        THEN IF o.buffer_state # None /\ animation_done(o)
             THEN set_state(o, o.buffer_state)
             ELSE run_conditions(o, conds, env, 1)
        ELSE o

\* AnimationMachine.update
AnimationMachine_update(o, env) ==
    LET o1 == StateMachine_update(o, env)
    IN  handle_sound(o1, o1.state)

\* ---------------------------------------------------------------- calls
\* the objects as the variables hold them, at the start of a call
Obj ==
    [state |-> state, buffer_state |-> buffer_state, meter |-> animation_meter,
     cycles |-> animation_cycles, layers |-> layers, events |-> <<>>, log |-> <<>>]

Files == UNION {{sounds[s][i].file : i \in DOMAIN sounds[s]} : s \in DOMAIN sounds}

NoPlays == [f \in Files |-> 0]

CountPlays(log, f) ==
    Cardinality({i \in DOMAIN log : log[i].op = "play" /\ log[i].file = f})

Call(op, arg, tests) ==
    [op |-> op, arg |-> arg, state |-> state, buffer_state |-> buffer_state,
     cycles |-> animation_cycles, tests |-> tests]

\* the variables after a call that left the objects as o
Becomes(o) ==
    /\ state' = o.state
    /\ buffer_state' = o.buffer_state
    /\ animation_meter' = o.meter
    /\ animation_cycles' = o.cycles
    /\ layers' = o.layers
    /\ events' = o.events
    /\ sound_log' = o.log
    /\ UNCHANGED <<cfgvars, mvars, cvars, pvars>>

\* an EventHandler nothing was queued on
NoChain ==
    [events |-> <<>>, heap |-> <<>>, timers |-> <<>>, to_add |-> <<>>,
     to_remove |-> <<>>, ticks |-> 0, handled |-> <<>>, trace |-> <<>>]

\* no buffered transition is being waited for
NoWait == [to |-> None, at |-> None, age |-> 0, alone |-> TRUE]

\* AnimationInterface.set_animation_machine: a new machine in the first key of
\* states over the graphics set_animations left (Meter(0, 0, 1), no cycles),
\* then machine.set_state("default")
AnimStart ==
    LET fresh == [state |-> "default", buffer_state |-> None,
                  meter |-> Meter_init(0, 0, 1), cycles |-> 0, layers |-> <<>>,
                  events |-> <<>>, log |-> <<>>]
        o == set_state(fresh, "default")
    IN  /\ state = o.state
        /\ buffer_state = o.buffer_state
        /\ animation_meter = o.meter
        /\ animation_cycles = o.cycles
        /\ layers = o.layers
        /\ events = o.events
        /\ sound_log = o.log
        /\ plays = NoPlays
        /\ last = [op |-> "set_state", arg |-> "default", state |-> "default",
                   buffer_state |-> None, cycles |-> 0, tests |-> <<>>]
        /\ n_updates = 0
        /\ entered_by = "set_state"
        /\ waited = NoWait
        /\ ev = NoChain

\* a direct call of graphics.update()
GraphicsUpdate ==
    /\ animation_cycles < MaxCycles
    /\ Becomes(Graphics_update(Obj))
    /\ last' = Call("graphics", None, <<>>)
    /\ n_updates' = n_updates + 1
    /\ UNCHANGED <<plays, entered_by, waited>>

\* a direct call of machine.update(); env is what the conditions' methods return
MachineUpdate ==
    \E env \in [DOMAIN conditions(Obj) -> BOOLEAN] :
        LET o == AnimationMachine_update(Obj, env)
        IN  /\ Becomes(o)
            /\ last' = Call("update", None, env)
            /\ n_updates' = IF o.events # <<>> THEN 0 ELSE n_updates
            /\ entered_by' = IF o.events # <<>> THEN "update" ELSE entered_by
            /\ plays' = [f \in Files |->
                            (IF o.events # <<>> THEN 0 ELSE plays[f])
                            + CountPlays(o.log, f)]
            /\ UNCHANGED waited

\* a call of machine.set_state(s) from outside update()
ExtSetState ==
    \E s \in StateNames :
        /\ Becomes(set_state(Obj, s))
        /\ last' = Call("set_state", s, <<>>)
        /\ n_updates' = 0
        /\ entered_by' = "set_state"
        /\ plays' = NoPlays
        /\ UNCHANGED waited

\* Entity.update: the update methods in the order the interface appended them,
\* graphics.update then machine.update
Entity_update ==
    /\ animation_cycles < MaxCycles
    /\ \E env \in [DOMAIN conditions(Obj) -> BOOLEAN] :
        LET g == Graphics_update(Obj)
            o == AnimationMachine_update(g, env)
        IN  /\ Becomes(o)
            /\ last' = [Call("frame", None, env) EXCEPT !.cycles = g.cycles]
            /\ n_updates' = IF o.events # <<>> THEN 0 ELSE n_updates + 1
            /\ entered_by' = IF o.events # <<>> THEN "update" ELSE entered_by
            /\ plays' = [f \in Files |->
                            (IF o.events # <<>> THEN 0 ELSE plays[f])
                            + CountPlays(o.log, f)]

\* one frame of an entity nobody waits on
EntityUpdate == Entity_update /\ UNCHANGED waited

\* What one frame makes of waited. A wait starts when update() tested the
\* conditions and left a buffer_state it did not hold before, in a state that
\* has conditions and an animation: [to, at, age, alone] with to the state
\* buffered, at the state the machine is in, age the frames gone by since and
\* alone whether no buffered condition for another state tested true since.
\* It ends when a non-buffered condition tests true or the machine enters to.
Awaited ==
    LET conds == conditions(Obj)
        tested == conds # <<>> /\ ~(buffer_state # None /\ last'.cycles > 0)
        true == IF tested
                THEN {i \in DOMAIN conds : test(conds[i], last'.tests[i])}
                ELSE {}
        unbuffered == \E i \in true : ~conds[i].buffer
        others == \E i \in true : conds[i].buffer /\ conds[i].to_state # waited.to
        entered == events' # <<>> /\ state' = waited.to
    IN  IF waited = NoWait
        THEN IF /\ tested
                /\ buffer_state' # None
                /\ (buffer_state' # buffer_state \/ events' # <<>>)
                /\ state' \in DOMAIN states
                /\ states[state'] # <<>>
                /\ state' \in DOMAIN animations
                /\ get_frame_count(animations[state']) >= 1
             THEN [to |-> buffer_state', at |-> state', age |-> 0, alone |-> TRUE]
             ELSE NoWait
        ELSE IF unbuffered \/ entered THEN NoWait
        ELSE [waited EXCEPT
                 !.age = IF @ < get_frame_count(animations[waited.at])
                         THEN @ + 1 ELSE @,
                 !.alone = @ /\ ~others]

\* one frame of an entity whose buffered transitions are waited for
EntityUpdateWaiting == Entity_update /\ waited' = Awaited

\* ---------------------------------------------------------------- set-ups
Cond(to, buffer, test_condition) ==
    [to_state |-> to, buffer |-> buffer, test_condition |-> test_condition]

\* conditions to either state, buffered or not, expecting TRUE; and one that
\* expects FALSE
Conds ==
    {Cond(to, buffer, TRUE) : to \in StateNames, buffer \in BOOLEAN}
    \cup {Cond("b", FALSE, FALSE)}

CondLists(n) == UNION {[1..k -> Conds] : k \in 0..n}

\* the second state's list: missing from states, empty, or one condition back
BackLists == {<<>>, <<Cond("default", FALSE, TRUE)>>, <<Cond("default", TRUE, TRUE)>>}

Tables ==
    {[s \in {"default"} |-> l] : l \in CondLists(MaxConds)}
    \cup {[s \in StateNames |-> IF s = "default" THEN l ELSE r] :
            l \in CondLists(MaxConds), r \in BackLists}

\* every table over two state names, with animations of 2 and 1 frames, or
\* with no animation for the second state
AnimSetups ==
    /\ states \in Tables
    /\ animations \in {[s \in StateNames |-> IF s = "default" THEN <<1, 1>> ELSE <<1>>],
                       [s \in {"default"} |-> <<2>>]}
    /\ sounds = <<>>

AnimIdle ==
    /\ states = [s \in {"default"} |-> <<>>]
    /\ animations = [s \in {"default"} |-> <<1>>]
    /\ sounds = <<>>
    /\ AnimStart

\* buffered conditions to either state and a non-buffered one
WaitConds ==
    {Cond(to, TRUE, TRUE) : to \in StateNames} \cup {Cond("b", FALSE, TRUE)}

\* two states, the first with conditions and an animation of one to three
\* frames, the second with a condition back or none
WaitSetups ==
    /\ states \in {[s \in StateNames |-> IF s = "default" THEN l ELSE r] :
                     l \in UNION {[1..k -> WaitConds] : k \in 1..MaxConds},
                     r \in {<<>>, <<Cond("default", FALSE, TRUE)>>}}
    /\ animations \in {[s \in StateNames |-> IF s = "default" THEN steps ELSE <<1>>] :
                         steps \in {<<1>>, <<1, 1>>, <<2, 1>>}}
    /\ sounds = <<>>

\* animations of one to four frames
StepLists == UNION {[1..k -> 1..MaxDuration] : k \in 1..2}

Cue(file, offset, loop, cancel) ==
    [file |-> file, offset |-> offset, loop |-> loop, cancel |-> cancel]

\* two states that lead to each other, the way back buffered or not; the first
\* state has an animation of any length and two cues at any of its frames
CueSetups ==
    /\ \E buffer \in BOOLEAN :
        states = [s \in StateNames |->
                    IF s = "default" THEN <<Cond("b", FALSE, TRUE)>>
                    ELSE <<Cond("default", buffer, TRUE)>>]
    /\ \E steps \in StepLists :
        animations = [s \in StateNames |-> IF s = "default" THEN steps ELSE <<1>>]
    /\ \E k1 \in 0..(get_frame_count(animations["default"]) - 1),
          k2 \in 0..(get_frame_count(animations["default"]) - 1),
          cancel \in BOOLEAN :
        sounds = [s \in {"default"} |->
                    <<Cue("once", k1, FALSE, cancel), Cue("loop", k2, TRUE, TRUE)>>]

\* ================================================================ Timer, Clock
\* A timer object is a Meter record with temp, on_tick and on_done (whether the
\* callback is set). What a callback does is its caller's code: when it runs
\* it makes the calls of a script, a list of [op, target] with op "add" for
\* clock.add_timers(target) and "remove" for clock.remove_timer(target). During
\* one Clock.tick() the callback `when` of the timer at place `pos` runs the
\* script act.script and every other callback returns at once.
\* The clock and its timers are one record
\*   k = [tm, timers, to_add, to_remove, act, trace]
\* where trace lists the calls made during one Clock.tick(), each [kind, pos, t],
\* pos being the place in the timers list the loop had reached:
\*   "tick"     t.tick() was called
\*   "on_tick", "on_done"   that callback of t was called
\*   "add"      a callback called add_timers(t)
\*   "remove"   a callback called remove_timer(t)
\*   "expire"   tick() itself called remove_timer(t) on a temp timer that is off
Timers == {1, 2, 3}

\* Timer(name, duration, temp, on_tick, on_done) for an integer duration > 0:
\* Meter(name, duration), so minimum 0 and value = maximum = duration
Timer_init(duration, temp, on_tick, on_done) ==
    [minimum |-> 0, maximum |-> duration, value |-> duration, temp |-> temp,
     on_tick |-> on_tick, on_done |-> on_done]

is_off(t) == is_empty(t)

is_on(t) == ~is_off(t)

InSeq(x, s) == \E i \in DOMAIN s : s[i] = x

Range(s) == {s[i] : i \in DOMAIN s}

Event(kind, pos, t) == [kind |-> kind, pos |-> pos, t |-> t]

Logged(k, kind, pos, t) == [k EXCEPT !.trace = Append(@, Event(kind, pos, t))]

\* Clock.add_timers(t) that appends to timers at once
add_timers_unstaged(k, t) == [k EXCEPT !.timers = Append(@, t)]

\* Clock.add_timers(t)
add_timers(k, t) == [k EXCEPT !.to_add = Append(@, t)]

\* Clock.remove_timer(t): staged when t is in timers + to_add
remove_timer(k, t) ==
    IF InSeq(t, k.timers \o k.to_add)
    THEN [k EXCEPT !.to_remove = Append(@, t)]
    ELSE k

RECURSIVE run_script(_, _, _)
\* the calls a callback makes, in order
run_script(k, script, pos) ==
    IF script = <<>> THEN k
    ELSE LET c == Head(script)
             k1 == IF c.op = "add"
                   THEN Logged(add_timers(k, c.target), "add", pos, c.target)
                   ELSE Logged(remove_timer(k, c.target), "remove", pos, c.target)
         IN  run_script(k1, Tail(script), pos)

\* `if self.on_tick: self.on_tick()`, and the same for on_done
run_callback(k, t, when, pos) ==
    IF k.tm[t][when]
    THEN LET k1 == Logged(k, when, pos, t)
         IN  IF k.act.pos = pos /\ k.act.when = when
             THEN run_script(k1, k.act.script, pos)
             ELSE k1
    ELSE k

\* Timer.tick that calls on_tick before testing is_on()
Timer_tick_always_calls(k, t, pos) ==
    LET k0 == Logged(k, "tick", pos, t)
        before == is_on(k0.tm[t])
        k1 == IF before THEN [k0 EXCEPT !.tm[t] = Meter_prev(@)] ELSE k0
        k2 == run_callback(k1, t, "on_tick", pos)
        after == is_off(k2.tm[t])
        done == before /\ after
    IN  IF done THEN run_callback(k2, t, "on_done", pos) ELSE k2

\* Timer.tick on timer t, reached at pos
Timer_tick(k, t, pos) ==
    LET k0 == Logged(k, "tick", pos, t)
        before == is_on(k0.tm[t])
        k1 == [k0 EXCEPT !.tm[t] = Meter_prev(@)]
        k2 == run_callback(k1, t, "on_tick", pos)
        after == is_off(k2.tm[t])
        done == before /\ after
    IN  IF before
        THEN IF done THEN run_callback(k2, t, "on_done", pos) ELSE k2
        ELSE k0

\* Timer.reset bound to Meter.reset
Timer_reset_to_minimum(t) == Meter_reset(t)

\* Timer.reset: Timer.__init__ binds reset to refill
Timer_reset(t) == Meter_refill(t)

\* the `if t.is_off():` block of Clock.tick that resets every timer
settle_resets_all(k, t, pos) ==
    IF is_off(k.tm[t]) THEN [k EXCEPT !.tm[t] = Timer_reset(@)] ELSE k

\* the `if t.is_off():` block of Clock.tick without its else branch
settle_without_reset(k, t, pos) ==
    IF is_off(k.tm[t]) /\ k.tm[t].temp
    THEN Logged(remove_timer(k, t), "expire", pos, t)
    ELSE k

\* after t.tick(): a timer that is off is staged for removal when it is temp,
\* and reset otherwise
settle(k, t, pos) ==
    IF is_off(k.tm[t])
    THEN IF k.tm[t].temp
         THEN Logged(remove_timer(k, t), "expire", pos, t)
         ELSE [k EXCEPT !.tm[t] = Timer_reset(@)]
    ELSE k

\* the body of the loop of Clock.tick without the to_remove test
tick_one_unguarded(k, pos) ==
    settle(Timer_tick(k, k.timers[pos], pos), k.timers[pos], pos)

\* the body of the loop of Clock.tick for the timer at pos
tick_one(k, pos) ==
    LET t == k.timers[pos]
    IN  IF ~InSeq(t, k.to_remove)
        THEN settle(Timer_tick(k, t, pos), t, pos)
        ELSE k

RECURSIVE tick_from(_, _)
\* `for t in self.timers:` from pos on
tick_from(k, pos) ==
    IF pos > Len(k.timers) THEN k ELSE tick_from(tick_one(k, pos), pos + 1)

\* Clock.tick that empties to_remove without taking its timers out of timers
Clock_tick_keeps_staged(k) ==
    LET k1 == [k EXCEPT !.timers = @ \o k.to_add, !.to_add = <<>>]
        k2 == tick_from(k1, 1)
    IN  [k2 EXCEPT !.to_remove = <<>>]

\* Clock.tick with the to_add merge made after the loop
Clock_tick_merges_last(k) ==
    LET k2 == tick_from(k, 1)
    IN  [k2 EXCEPT !.timers = SelectSeq(@ \o k2.to_add,
                                        LAMBDA t : ~InSeq(t, k2.to_remove)),
                   !.to_add = <<>>, !.to_remove = <<>>]

\* Clock.tick
Clock_tick(k) ==
    LET k1 == [k EXCEPT !.timers = @ \o k.to_add, !.to_add = <<>>]
        k2 == tick_from(k1, 1)
    IN  [k2 EXCEPT !.timers = SelectSeq(@, LAMBDA t : ~InSeq(t, k2.to_remove)),
                   !.to_remove = <<>>]

\* ---------------------------------------------------------------- calls
Ops == [op : {"add", "remove"}, target : Timers]

Op(op, target) == [op |-> op, target |-> target]

\* a callback makes one call, or adds a timer and removes it again, or removes a
\* timer and adds it again
Scripts ==
    {<<c>> : c \in Ops}
    \cup {<<Op("add", t), Op("remove", t)>> : t \in Timers}
    \cup {<<Op("remove", t), Op("add", t)>> : t \in Timers}

NoAct == [pos |-> 0, when |-> "on_tick", script |-> <<>>]

Acts == [pos : 1..MaxTimers, when : {"on_tick", "on_done"}, script : Scripts]

\* the clock as the variables hold it, at the start of a call
Clk(act) ==
    [tm |-> tm, timers |-> timers, to_add |-> to_add, to_remove |-> to_remove,
     act |-> act, trace |-> <<>>]

NoTick == [list |-> <<>>, old |-> 0, staged |-> {}, before |-> {}, trace |-> <<>>]

RECURSIVE after_trace(_, _)
\* the cancelled timers after the calls of one tick(): c before them, given as
\* [set, in] with `in` the timers that are in timers + to_add
after_trace(c, trace) ==
    IF trace = <<>> THEN c.set
    ELSE LET e == Head(trace)
         IN  IF e.kind = "add"
             THEN after_trace([set |-> c.set \ {e.t}, in |-> c.in \cup {e.t}], Tail(trace))
             ELSE IF e.kind = "remove" /\ e.t \in c.in
             THEN after_trace([c EXCEPT !.set = @ \cup {e.t}], Tail(trace))
             ELSE after_trace(c, Tail(trace))

\* clock.add_timers(t), called between ticks for a timer the clock does not hold
AddTimers ==
    \E t \in Timers :
        /\ tk = NoTick
        /\ ~InSeq(t, timers \o to_add)
        /\ Len(timers) + Len(to_add) < MaxTimers
        /\ timers' = add_timers(Clk(NoAct), t).timers
        /\ to_add' = add_timers(Clk(NoAct), t).to_add
        /\ cancelled' = cancelled \ {t}
        /\ tk' = NoTick
        /\ UNCHANGED <<tm, to_remove, hist, mvars, avars, pvars>>

\* clock.remove_timer(t), called between ticks
RemoveTimer ==
    \E t \in Timers :
        /\ tk = NoTick
        /\ Len(to_remove) < MaxStaged
        /\ to_remove' = remove_timer(Clk(NoAct), t).to_remove
        /\ cancelled' = IF InSeq(t, timers \o to_add)
                        THEN cancelled \cup {t} ELSE cancelled
        /\ tk' = NoTick
        /\ UNCHANGED <<tm, timers, to_add, hist, mvars, avars, pvars>>

\* clock.tick(), one callback at most running a script
Tick ==
    \E act \in {NoAct} \cup {a \in Acts : a.pos <= Len(timers) + Len(to_add)} :
        LET k == Clock_tick(Clk(act))
        IN  /\ tk = NoTick
            /\ Len(k.timers) + Len(k.to_add) <= MaxTimers
            /\ tm' = k.tm
            /\ timers' = k.timers
            /\ to_add' = k.to_add
            /\ to_remove' = k.to_remove
            /\ tk' = [list |-> timers \o to_add, old |-> Len(timers),
                      staged |-> Range(to_remove), before |-> cancelled,
                      trace |-> k.trace]
            /\ cancelled' = after_trace([set |-> cancelled,
                                         in |-> Range(timers \o to_add)], k.trace)
            /\ UNCHANGED <<hist, mvars, avars, pvars>>

\* tk describes the last call when that was a tick(); it is dropped before the
\* next call is made
Returned ==
    /\ tk # NoTick
    /\ tk' = NoTick
    /\ UNCHANGED <<tm, timers, to_add, to_remove, cancelled, hist, mvars, avars, pvars>>

\* ---------------------------------------------------------------- timers left alone
\* nothing recorded for a timer add_timers was not called for
NoHist == [added |-> FALSE, start |-> 0, ticks |-> <<>>]

\* how many calls of one kind one Clock.tick() made for timer t
Count(trace, kind, t) ==
    Cardinality({i \in DOMAIN trace : trace[i].kind = kind /\ trace[i].t = t})

\* clock.add_timers(t) for a timer the clock does not hold
TimersAdd ==
    \E t \in Timers :
        /\ ~InSeq(t, timers \o to_add)
        /\ Len(timers) + Len(to_add) < MaxTimers
        /\ timers' = add_timers(Clk(NoAct), t).timers
        /\ to_add' = add_timers(Clk(NoAct), t).to_add
        /\ hist' = [hist EXCEPT ![t] = [added |-> TRUE, start |-> tm[t].value,
                                        ticks |-> <<>>]]
        /\ UNCHANGED <<tm, to_remove, tk, cancelled, mvars, avars, pvars>>

\* clock.tick() with callbacks that make no call on the clock
TimersTick ==
    LET k == Clock_tick(Clk(NoAct))
    IN  /\ \A t \in Timers : Len(hist[t].ticks) < MaxTicks
        /\ tm' = k.tm
        /\ timers' = k.timers
        /\ to_add' = k.to_add
        /\ to_remove' = k.to_remove
        /\ hist' = [t \in Timers |->
                      IF hist[t].added
                      THEN [hist[t] EXCEPT !.ticks =
                              Append(@, [ticked |-> Count(k.trace, "tick", t),
                                         done |-> Count(k.trace, "on_done", t),
                                         value |-> k.tm[t].value,
                                         held |-> InSeq(t, k.timers)])]
                      ELSE hist[t]]
        /\ UNCHANGED <<tk, cancelled, mvars, avars, pvars>>

\* three timers of any duration, temporary or repeating, with both callbacks set
TimersStart ==
    /\ tm \in [Timers -> {Timer_init(d, temp, TRUE, TRUE) :
                            d \in 1..MaxTimerDuration, temp \in BOOLEAN}]
    /\ timers = <<>>
    /\ to_add = <<>>
    /\ to_remove = <<>>
    /\ tk = NoTick
    /\ cancelled = {}
    /\ hist = [t \in Timers |-> NoHist]

\* ---------------------------------------------------------------- set-ups
\* three timers with both callbacks set, of durations 1..MaxTimerDuration;
\* timer 2 repeats (temp = False), the others are temporary
TimerSetup ==
    [t \in Timers |-> Timer_init(1 + (t % MaxTimerDuration), t # 2, TRUE, TRUE)]

\* Clock(name): no timers, nothing staged
ClockStart ==
    /\ tm = TimerSetup
    /\ timers = <<>>
    /\ to_add = <<>>
    /\ to_remove = <<>>
    /\ tk = NoTick
    /\ cancelled = {}
    /\ hist = [t \in Timers |-> NoHist]

ClockIdle ==
    /\ tm = [t \in Timers |-> Timer_init(1, TRUE, FALSE, FALSE)]
    /\ timers = <<>>
    /\ to_add = <<>>
    /\ to_remove = <<>>
    /\ tk = NoTick
    /\ cancelled = {}
    /\ hist = [t \in Timers |-> NoHist]

\* ================================================================ EventHandler
\* The event dicts of a chain are known by their place in ev.events:
\* [duration, temp, link, timer], link the place of the next event or 0 for no
\* "link" key, timer the place in ev.heap of the Timer under the "timer" key or
\* 0 for none. A Timer of the heap is [minimum, maximum, value, temp, event],
\* event being the dict its on_done lambda hands to handle(). The events are
\* not lerp ones, so on_tick stays None. The handler's Clock is ev.timers,
\* ev.to_add and ev.to_remove, holding places of the heap.

\* EventHandler.chain_events: each event's "link" is the next one
chain_events(es) ==
    [k \in DOMAIN es |->
        [duration |-> es[k].duration, temp |-> es[k].temp,
         link |-> IF k < Len(es) THEN k + 1 ELSE 0, timer |-> 0]]

\* the part of EventHandler.queue after the chaining, with the new timer put
\* into the clock's timers at once
queue_unstaged(e, k) ==
    LET timer == [minimum |-> 0, maximum |-> e.events[k].duration,
                  value |-> e.events[k].duration, temp |-> e.events[k].temp,
                  event |-> k]
        id == Len(e.heap) + 1
    IN  [e EXCEPT !.heap = Append(@, timer), !.events[k].timer = id,
                  !.timers = Append(@, id)]

\* the part of EventHandler.queue after the chaining: a new Timer for event k,
\* stored under its "timer" key, added to the clock, with on_done = handle(k)
queue(e, k) ==
    LET timer == [minimum |-> 0, maximum |-> e.events[k].duration,
                  value |-> e.events[k].duration, temp |-> e.events[k].temp,
                  event |-> k]
        id == Len(e.heap) + 1
    IN  [e EXCEPT !.heap = Append(@, timer), !.events[k].timer = id,
                  !.to_add = Append(@, id)]

\* EventHandler.handle(event k): the event's methods and listeners are called,
\* then the link is queued when the timer under the event's "timer" key is off
handle(e, k) ==
    LET e1 == [e EXCEPT !.handled = Append(@, [event |-> k, tick |-> e.ticks]),
                        !.trace = Append(@, [kind |-> "handle", event |-> k])]
        done == IF e1.events[k].timer # 0
                THEN is_off(e1.heap[e1.events[k].timer]) ELSE TRUE
        link == e1.events[k].link
    IN  IF done /\ link # 0 THEN queue(e1, link) ELSE e1

\* Timer.tick on the timer at place id of the heap: on_tick is None and on_done
\* is handle(event)
event_timer_tick(e, id) ==
    LET e0 == [e EXCEPT !.trace = Append(@, [kind |-> "tick", event |-> e.heap[id].event])]
        before == is_on(e0.heap[id])
        e1 == [e0 EXCEPT !.heap[id] = Meter_prev(@)]
        after == is_off(e1.heap[id])
        done == before /\ after
    IN  IF before
        THEN IF done THEN handle(e1, e1.heap[id].event) ELSE e1
        ELSE e0

\* the `if t.is_off():` block of Clock.tick
event_settle(e, id) ==
    IF is_off(e.heap[id])
    THEN IF e.heap[id].temp
         THEN IF InSeq(id, e.timers \o e.to_add)
              THEN [e EXCEPT !.to_remove = Append(@, id)] ELSE e
         ELSE [e EXCEPT !.heap[id] = Timer_reset(@)]
    ELSE e

RECURSIVE event_tick_from(_, _)
\* `for t in self.timers:` of Clock.tick from pos on
event_tick_from(e, pos) ==
    IF pos > Len(e.timers) THEN e
    ELSE LET id == e.timers[pos]
         IN  event_tick_from(IF ~InSeq(id, e.to_remove)
                             THEN event_settle(event_timer_tick(e, id), id)
                             ELSE e,
                             pos + 1)

\* Clock.tick on the handler's clock, the call being counted in ticks
event_clock_tick(e) ==
    LET e1 == [e EXCEPT !.timers = @ \o e.to_add, !.to_add = <<>>,
                        !.ticks = @ + 1, !.trace = <<>>]
        e2 == event_tick_from(e1, 1)
    IN  [e2 EXCEPT !.timers = SelectSeq(@, LAMBDA t : ~InSeq(t, e2.to_remove)),
                   !.to_remove = <<>>]

\* chains of one to MaxChain events, each with a duration and a temp flag
Chains ==
    UNION {[1..n -> [duration : 1..MaxTimerDuration, temp : BOOLEAN]] : n \in 1..MaxChain}

\* handler.queue(e1, ..., en) on a handler nothing was queued on
Queue ==
    \E es \in Chains :
        /\ ev = NoChain
        /\ ev' = queue([NoChain EXCEPT !.events = chain_events(es)], 1)
        /\ UNCHANGED <<mvars, ovars, cvars, pvars>>

\* one frame: tick() on the handler's clock
ChainTick ==
    /\ ev # NoChain
    /\ ev.ticks < MaxChainTicks
    /\ ev' = event_clock_tick(ev)
    /\ UNCHANGED <<mvars, ovars, cvars, pvars>>

\* ================================================================ calls without objects
NoCall ==
    /\ call = [op |-> "none", done |-> FALSE]
    /\ ret = None

\* the call op, about to be made
Pending(op) == call.op = op /\ ~call.done

\* the call op, made
Done(op) == call.op = op /\ call.done

\* animations of 1..MaxSteps steps
Animations == UNION {[1..n -> 1..MaxDuration] : n \in 1..MaxSteps}

\* animation.get_current_step(f) for f from 0 to one past the frame count
StepCalls ==
    UNION {{[op |-> "get_current_step", steps |-> steps, frame_num |-> f,
             done |-> FALSE] : f \in 0..(get_frame_count(steps) + 1)} :
           steps \in Animations}

GetCurrentStep ==
    /\ Pending("get_current_step")
    /\ call' = [call EXCEPT !.done = TRUE]
    /\ ret' = get_current_step(call.steps, call.frame_num)
    /\ UNCHANGED <<mvars, avars, cvars>>

\* animation.get_step_index(f) for f from 0 to one past the frame count
StepIndexCalls ==
    UNION {{[op |-> "get_step_index", steps |-> steps, frame_num |-> f,
             done |-> FALSE] : f \in 0..(get_frame_count(steps) + 1)} :
           steps \in Animations}

GetStepIndex ==
    /\ Pending("get_step_index")
    /\ call' = [call EXCEPT !.done = TRUE]
    /\ ret' = get_step_index(call.steps, call.frame_num)
    /\ UNCHANGED <<mvars, avars, cvars>>

\* ---------------------------------------------------------------- constructors
\* An argument of a constructor call is a Python value with its type. So that
\* a float between two integers can be told from them, a number is held as its
\* double: twice = 3 stands for 1.5. The meter or timer a constructor call
\* returns holds its fields in the same unit.
IntArg(n) == [type |-> "int", twice |-> 2 * n]

FloatArg(k) == [type |-> "float", twice |-> k]

\* a value that is neither int nor float (a bool, a str, None)
OtherArg == [type |-> "other", twice |-> 0]

Args ==
    {IntArg(n) : n \in (0 - MaxArg)..MaxArg}
        \cup {FloatArg(k) : k \in (0 - 2 * MaxArg)..(2 * MaxArg)}
        \cup {OtherArg}

\* what a constructor call leaves when it raises ValueError
ValueError == [raised |-> "ValueError"]

\* int(x) != x
NotIntegral(twice) == twice % 2 # 0

\* Meter(name, *args) without the test of maximum < minimum
Meter_new_unordered(args) ==
    LET value == IF Len(args) = 3 THEN args[2].twice ELSE args[1].twice
        maximum == IF Len(args) = 1 THEN args[1].twice ELSE args[Len(args)].twice
        minimum == IF Len(args) = 3 THEN args[1].twice ELSE 0
    IN  IF \E i \in DOMAIN args : args[i].type \notin {"int", "float"}
        THEN ValueError
        ELSE IF NotIntegral(maximum) \/ NotIntegral(minimum) THEN ValueError
        ELSE Meter_init(minimum, value, maximum)

\* Meter(name, *args) for one, two or three arguments: the meter, or
\* ValueError when the constructor raises it
Meter_new(args) ==
    LET value == IF Len(args) = 3 THEN args[2].twice ELSE args[1].twice
        maximum == IF Len(args) = 2 THEN args[2].twice
                   ELSE IF Len(args) = 3 THEN args[3].twice
                   ELSE args[1].twice
        minimum == IF Len(args) = 3 THEN args[1].twice ELSE 0
    IN  IF \E i \in DOMAIN args : args[i].type \notin {"int", "float"}
        THEN ValueError
        ELSE IF maximum < minimum THEN ValueError
        ELSE IF NotIntegral(maximum) \/ NotIntegral(minimum) THEN ValueError
        ELSE Meter_init(minimum, value, maximum)

\* Timer(name, duration, ...) that takes any number above 0
Timer_new_any_number(duration, temp, on_tick, on_done) ==
    IF duration.type = "other" \/ duration.twice <= 0
    THEN ValueError
    ELSE Timer_init(duration.twice, temp, on_tick, on_done)

\* Timer(name, duration, temp, on_tick, on_done): the timer, or ValueError
\* when the constructor raises it; Meter(name, duration) cannot raise for an
\* int above 0
Timer_new(duration, temp, on_tick, on_done) ==
    IF duration.type # "int" \/ duration.twice <= 0
    THEN ValueError
    ELSE Timer_init(duration.twice, temp, on_tick, on_done)

\* Meter(name, ...) with one, two or three arguments
MeterCalls ==
    {[op |-> "Meter", args |-> args, done |-> FALSE] :
        args \in UNION {[1..n -> Args] : n \in 1..3}}

MeterNew ==
    /\ Pending("Meter")
    /\ call' = [call EXCEPT !.done = TRUE]
    /\ ret' = Meter_new(call.args)
    /\ UNCHANGED <<mvars, avars, cvars>>

\* Timer(name, duration, temp)
TimerCalls ==
    {[op |-> "Timer", duration |-> duration, temp |-> temp, done |-> FALSE] :
        duration \in Args, temp \in BOOLEAN}

TimerNew ==
    /\ Pending("Timer")
    /\ call' = [call EXCEPT !.done = TRUE]
    /\ ret' = Timer_new(call.duration, call.temp, FALSE, FALSE)
    /\ UNCHANGED <<mvars, avars, cvars>>

\* ---------------------------------------------------------------- layers
Pairs(S) == {<<a, b>> : a \in S, b \in S}

\* the layers a data file can describe
Layers ==
    {AnimationLayer(size, position, offset, mirror, rotate) :
        size \in Pairs(1..MaxSide), position \in {<<0, 0>>, <<1, 0>>},
        offset \in Pairs((0 - MaxOffset)..MaxOffset), mirror \in Pairs(BOOLEAN),
        rotate \in (0 - MaxOffset)..MaxOffset}

\* layer.get_mirror_layer(mirror), once or on its own result again
MirrorCalls ==
    {[op |-> op, layer |-> layer, mirror |-> mirror, done |-> FALSE] :
        op \in {"get_mirror_layer", "get_mirror_layer twice"},
        layer \in Layers, mirror \in Pairs(BOOLEAN)}

\* layer.get_mirror_layer(mirror)
GetMirrorLayer ==
    /\ Pending("get_mirror_layer")
    /\ call' = [call EXCEPT !.done = TRUE]
    /\ ret' = get_mirror_layer(call.layer, call.mirror)
    /\ UNCHANGED <<mvars, avars, cvars>>

\* layer.get_mirror_layer(mirror).get_mirror_layer(mirror)
GetMirrorLayerTwice ==
    /\ Pending("get_mirror_layer twice")
    /\ call' = [call EXCEPT !.done = TRUE]
    /\ ret' = get_mirror_layer(get_mirror_layer(call.layer, call.mirror), call.mirror)
    /\ UNCHANGED <<mvars, avars, cvars>>

\* ---------------------------------------------------------------- variants
\* the boxes a data file can describe: with a size or a radius, with or without
\* a position
Boxes ==
    {[size |-> size, position |-> position] :
        size \in Pairs(1..MaxSide), position \in Pairs((0 - MaxOffset)..MaxOffset)}
    \cup {[radius |-> radius, position |-> position] :
        radius \in 1..MaxSide, position \in Pairs((0 - MaxOffset)..MaxOffset)}
    \cup {[size |-> size] : size \in Pairs(1..MaxSide)}

\* the animation get_animation_object builds for steps of these durations, each
\* step with the layers of its place and, like the animation, with a "body" box
\* of its own
BoxedAnimation(steps) ==
    Animation([i \in DOMAIN steps |->
                  AnimationStep(steps[i], step_layers("default", i), "body" :> i)],
              "body" :> (Len(steps) + 1))

\* the same with no box data at all
BareAnimation(steps) ==
    Animation([i \in DOMAIN steps |->
                  AnimationStep(steps[i], step_layers("default", i), <<>>)],
              <<>>)

\* an animation and the heap its boxes are in
Sources ==
    {[heap |-> [i \in 1..(Len(steps) + 1) |-> box], animation |-> BoxedAnimation(steps)] :
        steps \in StepLists, box \in Boxes}
    \cup {[heap |-> <<>>, animation |-> BareAnimation(steps)] : steps \in StepLists}

\* animation.get_mirror_animation(name, mirror), animation.get_reverse_animation(name)
VariantCalls ==
    {[op |-> "get_mirror_animation", heap |-> src.heap, animation |-> src.animation,
      mirror |-> mirror, done |-> FALSE] : src \in Sources, mirror \in Pairs(BOOLEAN)}
    \cup {[op |-> "get_reverse_animation", heap |-> src.heap,
            animation |-> src.animation, done |-> FALSE] : src \in Sources}

GetMirrorAnimation ==
    /\ Pending("get_mirror_animation")
    /\ call' = [call EXCEPT !.done = TRUE]
    /\ ret' = get_mirror_animation(call.heap, call.animation, call.mirror)
    /\ UNCHANGED <<mvars, avars, cvars>>

GetReverseAnimation ==
    /\ Pending("get_reverse_animation")
    /\ call' = [call EXCEPT !.done = TRUE]
    /\ ret' = get_reverse_animation(call.heap, call.animation)
    /\ UNCHANGED <<mvars, avars, cvars>>

\* ---------------------------------------------------------------- a timer ticked
RECURSIVE tick_times(_, _, _)
\* timer.tick() called n times in a row, the i-th call logged at pos i
tick_times(k, i, n) ==
    IF i > n THEN k ELSE tick_times(Timer_tick(k, 1, i), i + 1, n)

\* a timer of any duration at any of its values, with or without callbacks,
\* and timer.tick() called up to duration + 1 times
TickCalls ==
    UNION {{[op |-> "tick", n |-> n, done |-> FALSE,
             timer |-> [Timer_init(d, temp, on_tick, on_done) EXCEPT !.value = v]] :
                v \in 0..d, n \in 1..(d + 1), temp \in BOOLEAN,
                on_tick \in BOOLEAN, on_done \in BOOLEAN} :
           d \in 1..(MaxTimerDuration + 1)}

\* timer.tick(), call.n times, on a timer no clock holds
TimerTick ==
    /\ Pending("tick")
    /\ call' = [call EXCEPT !.done = TRUE]
    /\ ret' = LET k == tick_times([tm |-> [t \in {1} |-> call.timer], timers |-> <<>>,
                                   to_add |-> <<>>, to_remove |-> <<>>,
                                   act |-> NoAct, trace |-> <<>>], 1, call.n)
              IN  [timer |-> k.tm[1], trace |-> k.trace]
    /\ UNCHANGED <<mvars, avars, cvars>>

\* a call about to be made
CallsStart ==
    /\ call \in StepCalls \cup MirrorCalls \cup MeterCalls \cup TimerCalls
                \cup VariantCalls \cup TickCalls \cup StepIndexCalls
    /\ ret = None

\* ================================================================ specifications
\* a Meter and the calls next(), prev() and shift(n)
InitMeter == MeterStart /\ AnimIdle /\ ClockIdle /\ NoCall

NextMeter == MeterNext \/ MeterPrev \/ MeterShift

SpecMeter == InitMeter /\ [][NextMeter]_vars

\* a Meter, its property setters and all its calls
NextMeterSet ==
    \/ MeterNext
    \/ MeterPrev
    \/ MeterShift
    \/ MeterSetValue
    \/ MeterSetMinimum
    \/ MeterSetMaximum
    \/ MeterRefill
    \/ MeterReset

SpecMeterSet == InitMeter /\ [][NextMeterSet]_vars

\* a Meter, its property setters, its calls and rounds of calls
NextMeterRound ==
    \/ MeterNext
    \/ MeterPrev
    \/ MeterShift
    \/ MeterSetValue
    \/ MeterSetMinimum
    \/ MeterSetMaximum
    \/ MeterRefill
    \/ MeterReset
    \/ MeterNextRound
    \/ MeterPrevRound
    \/ MeterNextPrev
    \/ MeterPrevNext

SpecMeterRound == InitMeter /\ [][NextMeterRound]_vars

\* an entity's machine and graphics, called in any order
InitAnim == MeterIdle /\ AnimSetups /\ AnimStart /\ ClockIdle /\ NoCall

NextAnim == GraphicsUpdate \/ MachineUpdate \/ ExtSetState

SpecAnim == InitAnim /\ [][NextAnim]_vars

NextFrames == EntityUpdate \/ ExtSetState

\* the same entities with nobody calling set_state from outside
NextUpdates == GraphicsUpdate \/ MachineUpdate

SpecUpdates == InitAnim /\ [][NextUpdates]_vars

\* the same entities, updated frame by frame by Entity.update
SpecEntity == InitAnim /\ [][NextFrames]_vars

\* an entity updated frame by frame and nothing else
InitWait == MeterIdle /\ WaitSetups /\ AnimStart /\ ClockIdle /\ NoCall

NextWait == EntityUpdateWaiting

SpecWait == InitWait /\ [][NextWait]_vars

\* an event handler, a chain queued on it and its clock ticked frame by frame
InitChain == MeterIdle /\ AnimIdle /\ ClockIdle /\ NoCall

NextChain == Queue \/ ChainTick

SpecChain == InitChain /\ [][NextChain]_vars

\* an entity with sound cues, updated frame by frame
InitFrames == MeterIdle /\ CueSetups /\ AnimStart /\ ClockIdle /\ NoCall

SpecFrames == InitFrames /\ [][NextFrames]_vars

\* a clock, its timers and their callbacks
InitClock == MeterIdle /\ AnimIdle /\ ClockStart /\ NoCall

NextClock == AddTimers \/ RemoveTimer \/ Tick \/ Returned

SpecClock == InitClock /\ [][NextClock]_vars

\* a clock whose timers' callbacks leave it alone
InitTimers == MeterIdle /\ AnimIdle /\ TimersStart /\ NoCall

NextTimers == TimersAdd \/ TimersTick

SpecTimers == InitTimers /\ [][NextTimers]_vars

\* calls of functions and constructors
InitCalls == MeterIdle /\ AnimIdle /\ ClockIdle /\ CallsStart

NextCalls ==
    \/ GetCurrentStep
    \/ GetMirrorLayer
    \/ GetMirrorLayerTwice
    \/ MeterNew
    \/ TimerNew
    \/ GetMirrorAnimation
    \/ GetReverseAnimation
    \/ TimerTick
    \/ GetStepIndex

SpecCalls == InitCalls /\ [][NextCalls]_vars

\* ================================================================ claims
\* the condition list update() iterated in the last call, and which of its
\* conditions tested true there
PreConds == IF last.state \in DOMAIN states THEN states[last.state] ELSE <<>>

TrueAt(i) == PreConds[i].test_condition = last.tests[i]

\* the last call was machine.update(), called directly or by Entity.update
Updated == last.op \in {"update", "frame"}

\* update() got past the buffer check and tested the conditions
Tested ==
    /\ Updated
    /\ PreConds # <<>>
    /\ ~(last.buffer_state # None /\ last.cycles > 0)

Least(S) == CHOOSE i \in S : \A j \in S : i <= j

\* the non-buffered conditions that tested true in the last update()
C1_TrueUnbuffered == {i \in DOMAIN PreConds : ~PreConds[i].buffer /\ TrueAt(i)}

\* C1: when no buffered transition fires and two or more non-buffered
\* conditions of the current state test true in one update() call, the state
\* after update() is the to_state of the first of them in list order, never
\* that of a later one.
C1_FirstWins ==
    (Tested /\ Cardinality(C1_TrueUnbuffered) >= 2)
        => state = PreConds[Least(C1_TrueUnbuffered)].to_state

\* the scene of C2: exactly one condition of state A tests true, it is
\* buffered, and the buffer holds nothing or this condition's target B
C2_Only(i) ==
    /\ Updated
    /\ TrueAt(i)
    /\ PreConds[i].buffer
    /\ \A j \in DOMAIN PreConds : j # i => ~TrueAt(j)
    /\ last.buffer_state \in {None, PreConds[i].to_state}

\* an update() called while animation_cycles = 0 leaves state = A and records
\* buffer_state = B
C2_Waits(i) ==
    (C2_Only(i) /\ last.cycles = 0)
        => state = last.state /\ buffer_state = PreConds[i].to_state

\* C2 as stated: in a state A whose only true condition is buffered and targets
\* B, every update() called while animation_cycles = 0 leaves state = A and
\* records buffer_state = B; the first update() called with animation_cycles > 0
\* changes the state to B and leaves buffer_state = None.
C2_FirstDoneUpdateFires ==
    \A i \in DOMAIN PreConds :
        /\ C2_Waits(i)
        /\ (C2_Only(i) /\ last.cycles > 0)
            => state = PreConds[i].to_state /\ buffer_state = None

\* C2: in a state A whose only true condition is buffered and targets B, an
\* update() called while animation_cycles = 0 leaves state = A and records
\* buffer_state = B; an update() called with animation_cycles > 0 changes the
\* state to B and leaves buffer_state = None when B was recorded by an earlier
\* update(), and only records buffer_state = B when it was not.
C2_BufferedTransition ==
    \A i \in DOMAIN PreConds :
        /\ C2_Waits(i)
        /\ (C2_Only(i) /\ last.cycles > 0 /\ last.buffer_state # None)
            => state = PreConds[i].to_state /\ buffer_state = None
        /\ (C2_Only(i) /\ last.cycles > 0 /\ last.buffer_state = None)
            => state = last.state /\ buffer_state = PreConds[i].to_state

\* a recorded buffer fired and took the machine to another state
C2_Witness ==
    \E i \in DOMAIN PreConds :
        /\ C2_Only(i)
        /\ last.cycles > 0
        /\ last.buffer_state = PreConds[i].to_state
        /\ state = PreConds[i].to_state
        /\ state # last.state

\* the last call was Clock.tick(); tk.list is the list its loop went through
Ticked == tk # NoTick

\* t.tick() was called for the timer at place q of the list
TickedAt(q) == \E i \in DOMAIN tk.trace : tk.trace[i] = Event("tick", q, tk.list[q])

\* the calls remove_timer(T2) made by a callback of another timer T1 while T2,
\* not staged for removal until then, comes later in the list: [at, q] with at
\* the place of the call in the trace and q the place of T2 in the list
C3_Removals ==
    {r \in [at : DOMAIN tk.trace, q : DOMAIN tk.list] :
        LET e == tk.trace[r.at]
        IN  /\ e.kind = "remove"
            /\ e.t = tk.list[r.q]
            /\ e.t # tk.list[e.pos]
            /\ r.q > e.pos
            /\ e.t \notin tk.staged
            /\ \A j \in 1..(r.at - 1) :
                   ~(tk.trace[j].kind \in {"remove", "expire"} /\ tk.trace[j].t = e.t)}

C4_Added ==
    {i \in DOMAIN tk.trace :
        tk.trace[i].kind = "add" /\ ~InSeq(tk.trace[i].t, tk.list)}

\* the places of the list that tick() took from to_add (timers added since the
\* previous tick() merged its own), whose timer no remove_timer call has staged
\* by the time the loop gets there
C4_Merged ==
    {q \in (tk.old + 1)..Len(tk.list) :
        /\ tk.list[q] \notin tk.staged
        /\ \A j \in DOMAIN tk.trace :
               ~(/\ tk.trace[j].kind \in {"remove", "expire"}
                 /\ tk.trace[j].t = tk.list[q]
                 /\ tk.trace[j].pos < q)}

\* C4: a timer passed to add_timers() by a callback during a Clock.tick() call
\* is not ticked in that call and waits in to_add; a timer waiting in to_add
\* when tick() is called, added by a callback of the previous tick() or outside
\* tick(), is ticked by that call.
C4_AddStaged ==
    Ticked =>
        /\ \A i \in C4_Added :
               /\ \A j \in DOMAIN tk.trace :
                      ~(tk.trace[j].kind = "tick" /\ tk.trace[j].t = tk.trace[i].t)
               /\ InSeq(tk.trace[i].t, to_add)
        /\ \A q \in C4_Merged : TickedAt(q)

C4_Witness == Ticked /\ C4_Added # {} /\ C4_Merged # {}

\* C5: a timer for which remove_timer was called while it belonged to the clock
\* (tk.before, for the calls made before this tick() started) is not ticked by
\* this tick() unless it has been added again, and is out of timers when the
\* call returns.
C5_CancellationKept ==
    Ticked =>
        \A t \in tk.before :
            /\ \A i \in DOMAIN tk.trace :
                   (tk.trace[i].kind = "tick" /\ tk.trace[i].t = t)
                       => \E j \in 1..(i - 1) : tk.trace[j].kind = "add" /\ tk.trace[j].t = t
            /\ ~InSeq(t, timers)

\* C11: after a successful construction and any sequence of assignments to
\* value, minimum and maximum and of calls to next(), prev(), shift(), refill()
\* and reset(), minimum <= maximum and minimum <= value <= maximum.
C11_BoundsKept ==
    /\ mt.minimum <= mt.maximum
    /\ mt.minimum <= mt.value
    /\ mt.value <= mt.maximum

\* timer t was new (value = duration) when add_timers(t) was last called
AddedNew(t) == hist[t].added /\ hist[t].start = tm[t].maximum

\* C12: a Timer with temp = true and duration d that is added to a Clock is
\* ticked by each of the next d Clock.tick() calls, its on_done fires exactly
\* once, during the d-th of them, and when that call returns the timer is out of
\* timers and is not ticked by any later call.
C12_TempTimer ==
    \A t \in Timers :
        (AddedNew(t) /\ tm[t].temp) =>
            LET d == tm[t].maximum
                h == hist[t].ticks
            IN  \A i \in DOMAIN h :
                    /\ h[i].ticked = (IF i <= d THEN 1 ELSE 0)
                    /\ h[i].done = (IF i = d THEN 1 ELSE 0)
                    /\ h[i].held = (i < d)

\* a temporary timer of several ticks has expired and more calls were made
C12_Witness ==
    \E t \in Timers :
        /\ AddedNew(t)
        /\ tm[t].temp
        /\ tm[t].maximum >= 2
        /\ Len(hist[t].ticks) > tm[t].maximum
        /\ hist[t].ticks[tm[t].maximum].done = 1

\* C13: a Timer with temp = false and duration d that is added to a Clock and
\* never removed stays in timers, is ticked by every Clock.tick() call, its
\* on_done fires during exactly the calls numbered d, 2d, 3d, ... after it was
\* added, and after each of those calls its value is back at d.
C13_RepeatingTimer ==
    \A t \in Timers :
        (AddedNew(t) /\ ~tm[t].temp) =>
            LET d == tm[t].maximum
                h == hist[t].ticks
            IN  \A i \in DOMAIN h :
                    /\ h[i].ticked = 1
                    /\ h[i].held
                    /\ h[i].done = (IF i % d = 0 THEN 1 ELSE 0)
                    /\ h[i].value = d - (i % d)

\* a repeating timer of several ticks has finished twice
C13_Witness ==
    \E t \in Timers :
        /\ AddedNew(t)
        /\ ~tm[t].temp
        /\ tm[t].maximum >= 2
        /\ Len(hist[t].ticks) >= 2 * tm[t].maximum
        /\ hist[t].ticks[2 * tm[t].maximum].done = 1
        /\ hist[t].ticks[2 * tm[t].maximum].value = tm[t].maximum

\* C14: get_current_step(f), for step durations d_1..d_n and 0 <= f <=
\* d_1 + ... + d_n, is the first step i with f <= d_1 + ... + d_i; for durations
\* [3, 2, 4] that is the first step for f in 0..3, the second for f in 4..5 and
\* the third for f in 6..9.
C14_CurrentStep ==
    /\ (Done("get_current_step")
            /\ call.frame_num <= get_frame_count(call.steps))
        => /\ ret \in DOMAIN call.steps
           /\ call.frame_num <= get_frame_count(SubSeq(call.steps, 1, ret))
           /\ \A i \in 1..(ret - 1) :
                  call.frame_num > get_frame_count(SubSeq(call.steps, 1, i))
    /\ \A f \in 0..9 :
           get_current_step(<<3, 2, 4>>, f) = (IF f <= 3 THEN 1 ELSE IF f <= 5 THEN 2 ELSE 3)

\* the last frame of the second of three steps
C14_Witness ==
    /\ Done("get_current_step")
    /\ Len(call.steps) = 3
    /\ call.steps[2] >= 2
    /\ call.frame_num = call.steps[1] + call.steps[2]
    /\ ret = 2

\* C15: mirroring is an involution: a layer mirrored twice with the same flip
\* pair has the mirror flags, offset, rotate, size and position it started with.
C15_MirrorInvolution ==
    Done("get_mirror_layer twice") =>
        /\ ret.mirror = call.layer.mirror
        /\ ret.offset = call.layer.offset
        /\ ret.rotate = call.layer.rotate
        /\ ret.size = call.layer.size
        /\ ret.position = call.layer.position

\* a rotated layer with a mirror flag set, flipped twice on both axes
C15_Witness ==
    /\ Done("get_mirror_layer twice")
    /\ call.mirror = <<TRUE, TRUE>>
    /\ call.layer.rotate # 0
    /\ call.layer.offset = <<1, 0 - 1>>
    /\ call.layer.mirror = <<TRUE, FALSE>>
    /\ ret = call.layer

\* C16 as stated: get_mirror_layer with a flip on exactly one axis returns a
\* layer whose rotate is the negation of the original layer's rotate.
C16_RotateNegated ==
    (Done("get_mirror_layer") /\ call.mirror[1] # call.mirror[2]) =>
        ret.rotate = 0 - call.layer.rotate

\* C17: once the state is a name that is no key of states, reached through a
\* condition whose to_state is undefined, every later update() returns leaving
\* the state as it was, whatever the predicates return and whether or not a
\* buffer_state is pending; no transition is made and none is buffered.
C17_SilentFreeze ==
    (Updated /\ last.state \notin DOMAIN states)
        => /\ state = last.state
           /\ buffer_state = last.buffer_state
           /\ events = <<>>

\* update() of a machine that an earlier update() left in an undefined state
\* with a buffer_state pending, its animation done
C17_Witness ==
    /\ Updated
    /\ last.state \notin DOMAIN states
    /\ entered_by = "update"
    /\ last.buffer_state # None
    /\ last.cycles > 0
    /\ state = last.state

\* the arguments of the last Meter(...) call in the three-field form
C18_Minimum == IF Len(call.args) = 3 THEN call.args[1].twice ELSE 0

C18_Value == IF Len(call.args) = 3 THEN call.args[2].twice ELSE call.args[1].twice

C18_Maximum == call.args[Len(call.args)].twice

C18_Numbers == \A i \in DOMAIN call.args : call.args[i].type \in {"int", "float"}

\* clamp(v) into [minimum, maximum]
C18_Clamped ==
    IF C18_Value < C18_Minimum THEN C18_Minimum
    ELSE IF C18_Value > C18_Maximum THEN C18_Maximum
    ELSE C18_Value

C18_Built ==
    /\ ret # ValueError
    /\ ret = [minimum |-> C18_Minimum, value |-> C18_Clamped, maximum |-> C18_Maximum]
    /\ ret.minimum <= ret.value
    /\ ret.value <= ret.maximum

\* C18 as stated: Meter(name, v) yields minimum 0, value v, maximum v;
\* Meter(name, v, M) yields minimum 0, value clamp(v), maximum M;
\* Meter(name, m, v, M) yields minimum m, value clamp(v), maximum M; the
\* construction raises ValueError whenever the resulting maximum is less than
\* the resulting minimum, and otherwise succeeds with minimum <= value <= maximum.
C18_RaisesOnlyOnOrder ==
    (Done("Meter") /\ C18_Numbers) =>
        IF C18_Maximum < C18_Minimum THEN ret = ValueError ELSE C18_Built

\* C18: Meter(name, v) yields minimum 0, value v, maximum v; Meter(name, v, M)
\* yields minimum 0, value clamp(v), maximum M; Meter(name, m, v, M) yields
\* minimum m, value clamp(v), maximum M; the construction raises ValueError
\* whenever an argument is neither an int nor a float, whenever the resulting
\* maximum is less than the resulting minimum, and whenever the resulting
\* maximum or minimum is not integer-valued; otherwise it succeeds with
\* minimum <= value <= maximum.
C18_MeterConstruction ==
    Done("Meter") =>
        IF \/ ~C18_Numbers
           \/ C18_Maximum < C18_Minimum
           \/ NotIntegral(C18_Maximum)
           \/ NotIntegral(C18_Minimum)
        THEN ret = ValueError
        ELSE C18_Built

\* Meter(name, m, v, M) with v above M > m: built, the value clamped
C18_Witness ==
    /\ Done("Meter")
    /\ Len(call.args) = 3
    /\ C18_Minimum < C18_Maximum
    /\ C18_Value > C18_Maximum
    /\ ret # ValueError
    /\ ret.value = C18_Maximum

\* C19: Timer construction raises ValueError for every duration that is not an
\* int or is <= 0, and for every int duration d > 0 it yields a timer with
\* value = maximum = d and minimum = 0, which is on.
C19_TimerConstruction ==
    Done("Timer") =>
        IF call.duration.type # "int" \/ call.duration.twice <= 0
        THEN ret = ValueError
        ELSE /\ ret # ValueError
             /\ ret.value = call.duration.twice
             /\ ret.maximum = call.duration.twice
             /\ ret.minimum = 0
             /\ is_on(ret)

\* Timer(name, d) built for an int d > 0
C19_Witness ==
    /\ Done("Timer")
    /\ call.duration.type = "int"
    /\ call.duration.twice > 0
    /\ ret # ValueError
    /\ ret.value = call.duration.twice

\* C20: when reset_meter() returns, called by set_state for a state that has
\* an animation, animation_cycles is 0, the meter's value is 0, its maximum is
\* the animation's frame count less one, and layers holds exactly the
\* projections of the layers of the animation's step for frame 0, its first.
C20_ResetMeter ==
    (events # <<>> /\ state \in DOMAIN animations)
        => /\ animation_cycles = 0
           /\ animation_meter.value = 0
           /\ animation_meter.maximum = get_frame_count(animations[state]) - 1
           /\ Len(layers) = Len(step_layers(state, 1))
           /\ \A j \in DOMAIN layers :
                  /\ layers[j].rect.size = step_layers(state, 1)[j].size
                  /\ layers[j].rect.position = step_layers(state, 1)[j].position
                  /\ layers[j].offset = step_layers(state, 1)[j].offset
                  /\ layers[j].mirror = step_layers(state, 1)[j].mirror
                  /\ layers[j].rotate = step_layers(state, 1)[j].rotate

\* set_state from another state after cycles were counted there
C20_Witness ==
    /\ last.op = "set_state"
    /\ last.state # state
    /\ last.cycles > 0
    /\ state \in DOMAIN animations
    /\ events # <<>>
    /\ layers # <<>>
    /\ animation_cycles = 0

\* the last call derived a variant of an animation
C21_Derived == Done("get_mirror_animation") \/ Done("get_reverse_animation")

\* the durations the variant must have, place by place
C21_Durations ==
    IF call.op = "get_reverse_animation"
    THEN [i \in DOMAIN call.animation.steps |->
            call.animation.steps[Len(call.animation.steps) + 1 - i].duration]
    ELSE [i \in DOMAIN call.animation.steps |-> call.animation.steps[i].duration]

\* C21: get_mirror_animation and get_reverse_animation return a new Animation
\* whose steps have, place by place (in reversed order for the reverse
\* variant), the durations of the source's, so the frame counts are equal; and
\* after the call the source's steps, layers and box data read as before.
C21_VariantKeepsSource ==
    C21_Derived =>
        /\ durations(ret.animation) = C21_Durations
        /\ get_frame_count(durations(ret.animation))
               = get_frame_count(durations(call.animation))
        /\ contents(ret.heap, call.animation) = contents(call.heap, call.animation)

\* a mirrored variant of two steps of different durations whose boxes moved
C21_Witness ==
    /\ Done("get_mirror_animation")
    /\ call.mirror = <<TRUE, FALSE>>
    /\ Len(call.animation.steps) = 2
    /\ call.animation.steps[1].duration # call.animation.steps[2].duration
    /\ DOMAIN call.animation.data # {}
    /\ contents(ret.heap, ret.animation).data # contents(call.heap, call.animation).data
    /\ contents(ret.heap, ret.animation).steps[1].data
           # contents(call.heap, call.animation).steps[1].data

\* C22 as stated: for every integer-valued Meter with span = maximum - minimum + 1 and
\* every starting value, next() called span times brings the value back to
\* where it started, prev() called span times does the same, and next() then
\* prev(), or prev() then next(), leaves the value as it was.
C22_FullCycle ==
    (mt_call.op \in {"next round", "prev round", "next prev", "prev next"})
        => mt.value = mt_call.before

C23_IsStop(e) == e.op = "stop"

C23_Cancels(cue) == cue.cancel

\* the cues with cancel = true of the state the one transition of the last call
\* left, in list order
C23_Cancelled == SelectSeq(get_state_sounds(events[1].last_state), C23_Cancels)

\* C23: set_state(new) calls stop(), while the machine is still in the outgoing
\* state, on exactly those sound cues of the outgoing state that are configured
\* with cancel = true; cues with cancel = false and cues of any other state are
\* not stopped.
C23_StopsCancelled ==
    (Len(events) = 1) =>
        SelectSeq(sound_log, C23_IsStop)
            = [i \in DOMAIN C23_Cancelled |->
                  [op |-> "stop", file |-> C23_Cancelled[i].file,
                   state |-> events[1].last_state]]

\* set_state out of a state with a cue to stop and a cue to leave alone
C23_Witness ==
    /\ last.op = "set_state"
    /\ Len(events) = 1
    /\ last.state = "default"
    /\ state = "b"
    /\ \E i \in DOMAIN sounds["default"] : ~sounds["default"][i].cancel
    /\ sound_log = <<[op |-> "stop", file |-> "loop", state |-> "default"]>>

\* every to_state of every condition of the table is a key of states
C24_TableClosed ==
    \A s \in DOMAIN states :
        \A i \in DOMAIN states[s] : states[s][i].to_state \in DOMAIN states

\* C24: if every to_state of every condition in the states table is a key of
\* states, and nobody calls set_state from outside, then after any sequence of
\* update() calls the machine's state is a key of states.
C24_StateIsKey == C24_TableClosed => state \in DOMAIN states

\* a machine with a closed table of two states that a buffered transition took
\* out of its first state
C24_Witness ==
    /\ C24_TableClosed
    /\ Updated
    /\ last.state = "default"
    /\ last.buffer_state = "b"
    /\ state = "b"
    /\ state \in DOMAIN states

\* no callback called remove_timer during the last Clock.tick()
C25_NoRemoval == \A i \in DOMAIN tk.trace : tk.trace[i].kind # "remove"

C25_IsTick(e) == e.kind = "tick"

\* the t.tick() calls of the last Clock.tick(), in the order they were made
C25_Ticks == SelectSeq(tk.trace, C25_IsTick)

\* how many places of the merged list hold timer t
C25_Places(t) == Cardinality({q \in DOMAIN tk.list : tk.list[q] = t})

\* the t.tick() calls were made at places of the merged list, for the timer
\* held there, in increasing place order: the list iterated is the merged one
C25_InListOrder ==
    \A i \in DOMAIN C25_Ticks :
        /\ C25_Ticks[i].pos \in DOMAIN tk.list
        /\ C25_Ticks[i].t = tk.list[C25_Ticks[i].pos]
        /\ \A j \in 1..(i - 1) : C25_Ticks[j].pos < C25_Ticks[i].pos

\* C25 as stated: in a Clock.tick() call during which no callback calls
\* remove_timer, every timer that is in timers after the to_add merge and is
\* not staged in to_remove has its tick() called exactly once, in list order,
\* and the list being iterated is not changed by calls made from callbacks.
C25_EachTickedOnce ==
    (Ticked /\ C25_NoRemoval) =>
        /\ \A t \in Range(tk.list) \ tk.staged : Count(tk.trace, "tick", t) = 1
        /\ \A t \in tk.staged : Count(tk.trace, "tick", t) = 0
        /\ C25_InListOrder

\* C25, amended: in a Clock.tick() call during which no callback calls
\* remove_timer, every timer that holds exactly one place of timers after the
\* to_add merge and is not staged in to_remove has its tick() called exactly
\* once, a staged timer is not ticked, the calls are made in list order, and
\* the list being iterated is the merged one whatever the callbacks add.
C25_EachPlacedOnceTickedOnce ==
    (Ticked /\ C25_NoRemoval) =>
        /\ \A t \in Range(tk.list) \ tk.staged :
               (C25_Places(t) = 1) => (Count(tk.trace, "tick", t) = 1)
        /\ \A t \in tk.staged : Count(tk.trace, "tick", t) = 0
        /\ C25_InListOrder

\* a tick() over two different timers, neither staged, during which a callback
\* of the first called add_timers
C25_Witness ==
    /\ Ticked
    /\ C25_NoRemoval
    /\ Len(tk.list) = 2
    /\ tk.list[1] # tk.list[2]
    /\ tk.staged = {}
    /\ \E i \in DOMAIN tk.trace : tk.trace[i].kind = "add" /\ tk.trace[i].pos = 1
    /\ Len(C25_Ticks) = 2

\* a coordinate v of something of extent e along an axis, flipped or not
C26_Axis(flip, v, e) == IF flip THEN (0 - v) - e ELSE v

\* box new is box old with its position flipped about its size or its radius
C26_BoxFlipped(old, new, mirror) ==
    /\ DOMAIN new = DOMAIN old
    /\ \A f \in DOMAIN old \ {"position"} : new[f] = old[f]
    /\ ("position" \in DOMAIN old) =>
           LET w == IF "size" \in DOMAIN old THEN old.size[1] ELSE old.radius
               h == IF "size" \in DOMAIN old THEN old.size[2] ELSE old.radius
           IN  new.position = <<C26_Axis(mirror[1], old.position[1], w),
                                C26_Axis(mirror[2], old.position[2], h)>>

\* the data dict new_data of the result holds, key by key, the flipped boxes of
\* the data dict data of the source
C26_DataFlipped(data, new_data) ==
    /\ DOMAIN new_data = DOMAIN data
    /\ \A key \in DOMAIN data :
           C26_BoxFlipped(call.heap[data[key]], ret.heap[new_data[key]], call.mirror)

\* C26: get_mirror_layer((xflip, yflip)) returns a layer with unchanged size and
\* position whose offset is (-ox - w if xflip else ox, -oy - h if yflip else oy)
\* with (w, h) the layer's size, and whose mirror flag on each axis is negated
\* exactly when that axis is flipped; get_mirror_data applies the same formula
\* to each box's position, with (w, h) the box's size or (radius, radius), and
\* leaves size and radius unchanged.
C26_MirrorGeometry ==
    /\ Done("get_mirror_layer") =>
           /\ ret.size = call.layer.size
           /\ ret.position = call.layer.position
           /\ ret.offset = <<C26_Axis(call.mirror[1], call.layer.offset[1], call.layer.size[1]),
                             C26_Axis(call.mirror[2], call.layer.offset[2], call.layer.size[2])>>
           /\ \A axis \in 1..2 :
                  ret.mirror[axis] = (call.layer.mirror[axis] # call.mirror[axis])
    /\ Done("get_mirror_animation") =>
           /\ C26_DataFlipped(call.animation.data, ret.animation.data)
           /\ \A i \in DOMAIN call.animation.steps :
                  C26_DataFlipped(call.animation.steps[i].data,
                                  ret.animation.steps[i].data)

\* a box with a radius and a position off the origin, flipped on the x axis
\* alone: x moved to -x - radius, y kept
C26_Witness ==
    /\ Done("get_mirror_animation")
    /\ call.mirror = <<TRUE, FALSE>>
    /\ DOMAIN call.animation.data # {}
    /\ \A key \in DOMAIN call.animation.data :
           LET old == call.heap[call.animation.data[key]]
               new == ret.heap[ret.animation.data[key]]
           IN  /\ "radius" \in DOMAIN old
               /\ old.radius = 2
               /\ old.position = <<1, 0 - 1>>
               /\ new.position = <<0 - 3, 0 - 1>>
               /\ new.radius = 2

\* what reset_meter leaves for state s: no cycle counted and the meter at 0
\* with the maximum of s's animation
C27_Reset(s) ==
    reset_meter([state |-> s, buffer_state |-> None, meter |-> Meter_init(0, 0, 1),
                 cycles |-> 0, layers |-> <<>>, events |-> <<>>, log |-> <<>>])

\* C27 as stated: set_state cancels sounds, switches the state, resets the
\* playback cursor, clears buffer_state, and only then emits change_state; so
\* at the moment the event is delivered to the entity, animation_cycles is
\* already 0, the animation meter is already at 0 with the new state's
\* maximum, and buffer_state is already None.
C27_EmittedLast ==
    \A i \in DOMAIN events :
        /\ events[i].seen.cycles = 0
        /\ events[i].seen.meter = C27_Reset(events[i].state).meter
        /\ events[i].seen.buffer_state = None

\* C28 as stated: one AnimationMachine.update() call performs at most one state
\* transition: set_state is called at most once and at most one change_state
\* event is emitted per update() call, whatever number of conditions of the
\* current state test true.
C28_OneTransition == Updated => Len(events) <= 1

\* the conditions that tested true in the last update()
C29_True == {i \in DOMAIN PreConds : TrueAt(i)}

\* C29 as stated: in update(), when the first condition in list order that
\* tests true has buffer = true, that update() call does not change the state:
\* it only records buffer_state = that condition's to_state, even if a
\* non-buffered condition later in the same list also tests true.
C29_FirstBufferedOnlyRecords ==
    (Tested /\ C29_True # {} /\ PreConds[Least(C29_True)].buffer) =>
        /\ state = last.state
        /\ buffer_state = PreConds[Least(C29_True)].to_state
        /\ events = <<>>

\* C30 as stated: if buffer_state is set to B while the machine is in a state A
\* whose animation has frame count F >= 1 and whose condition list is
\* non-empty, and graphics.update() then machine.update() keep being called
\* once per frame, and no non-buffered condition of A tests true meanwhile,
\* then the machine enters B within at most F further frames: no wait lasts F
\* frames.
C30_FiresWithinF ==
    (waited # NoWait) => waited.age < get_frame_count(animations[waited.at])

\* C30, amended: the same, provided that no buffered condition for a state
\* other than B tests true meanwhile either.
C30_FiresWithinFAlone ==
    (waited # NoWait /\ waited.alone)
        => waited.age < get_frame_count(animations[waited.at])

\* a buffered transition to "b" that was pending in a state of three frames,
\* with no condition for another state testing true, fired in the frame that
\* ended the animation's first cycle
C30_Witness ==
    /\ last.op = "frame"
    /\ waited = NoWait
    /\ last.buffer_state = "b"
    /\ last.state = "default"
    /\ get_frame_count(animations["default"]) = 3
    /\ last.cycles = 1
    /\ \A i \in DOMAIN PreConds : (TrueAt(i) => PreConds[i].buffer /\ PreConds[i].to_state = "b")
    /\ state = "b"
    /\ Len(events) = 1

\* the timer at place q of the list was in to_remove when the loop of the last
\* Clock.tick() reached it: staged before the call, or by a remove_timer call
\* made while an earlier place was being ticked
C31_StagedAt(q) ==
    \/ tk.list[q] \in tk.staged
    \/ \E j \in DOMAIN tk.trace :
           /\ tk.trace[j].kind \in {"remove", "expire"}
           /\ tk.trace[j].t = tk.list[q]
           /\ tk.trace[j].pos < q

\* C31 as stated: a timer that is in to_remove at the moment the iteration
\* reaches it (staged before tick() was called, or staged by a callback of an
\* earlier timer in the same tick) does not have its tick() called in that
\* Clock.tick() call, and it is absent from timers when the call returns.
C31_StagedNeverTicked ==
    Ticked =>
        \A q \in DOMAIN tk.list :
            C31_StagedAt(q) =>
                /\ Count(tk.trace, "tick", tk.list[q]) = 0
                /\ ~InSeq(tk.list[q], timers)

\* C31, amended: a timer that is in to_remove at the moment the iteration
\* reaches a place it holds in the list does not have its tick() called at that
\* place, and it is absent from timers when the call returns; it may have been
\* ticked at an earlier place it holds.
C31_StagedSkipped ==
    Ticked =>
        \A q \in DOMAIN tk.list :
            C31_StagedAt(q) => ~TickedAt(q) /\ ~InSeq(tk.list[q], timers)

\* a tick() over two timers, the second staged for removal before the call:
\* the first is ticked, the second is not and is gone
C31_Witness ==
    /\ Ticked
    /\ Len(tk.list) = 2
    /\ tk.list[1] # tk.list[2]
    /\ tk.staged = {tk.list[2]}
    /\ TickedAt(1)
    /\ ~TickedAt(2)
    /\ ~InSeq(tk.list[2], timers)

\* the calls one timer.tick() on a timer of value v makes, the tick logged at
\* pos: on_tick if set, then on_done if set and v is 1; none when v is 0
C32_Calls(timer, v, pos) ==
    <<Event("tick", pos, 1)>>
    \o (IF v > 0 /\ timer.on_tick THEN <<Event("on_tick", pos, 1)>> ELSE <<>>)
    \o (IF v = 1 /\ timer.on_done THEN <<Event("on_done", pos, 1)>> ELSE <<>>)

RECURSIVE C32_Trace(_, _, _, _)
\* the calls of ticks i..n on a timer whose value is v before tick i
C32_Trace(timer, v, i, n) ==
    IF i > n THEN <<>>
    ELSE C32_Calls(timer, v, i)
         \o C32_Trace(timer, IF v > 0 THEN v - 1 ELSE 0, i + 1, n)

\* C32: Timer.tick() on a timer whose value is > 0 decrements the value by
\* exactly 1 and calls on_tick (if set) once; if that decrement took the value
\* from 1 to 0 it then calls on_done (if set) once, after on_tick; on a timer
\* whose value is already 0 it changes nothing and calls no callback. So over
\* its d ticks from value d to 0, on_tick is called d times and on_done once.
C32_TimerTick ==
    Done("tick") =>
        LET v == call.timer.value
            left == IF v > call.n THEN v - call.n ELSE 0
        IN  /\ ret.timer = [call.timer EXCEPT !.value = left]
            /\ ret.trace = C32_Trace(call.timer, v, 1, call.n)
            /\ (v = call.timer.maximum /\ call.n >= v) =>
                   /\ Count(ret.trace, "on_tick", 1) = IF call.timer.on_tick THEN v ELSE 0
                   /\ Count(ret.trace, "on_done", 1) = IF call.timer.on_done THEN 1 ELSE 0

\* a new timer of duration 3 with both callbacks, ticked four times: on_tick
\* three times, on_done once in the third tick after on_tick, nothing in the
\* fourth
C32_Witness ==
    /\ Done("tick")
    /\ call.timer.maximum = 3
    /\ call.timer.value = 3
    /\ call.n = 4
    /\ call.timer.on_tick
    /\ call.timer.on_done
    /\ ret.timer.value = 0
    /\ Len(ret.trace) = 8
    /\ ret.trace[7] = Event("on_done", 3, 1)
    /\ ret.trace[8] = Event("tick", 4, 1)

RECURSIVE C33_Due(_)
\* d1 + ... + dk: the tick in which event k of the chain is due
C33_Due(k) == IF k = 0 THEN 0 ELSE ev.events[k].duration + C33_Due(k - 1)

\* the handle() calls made for event k so far
C33_Handled(k) == {i \in DOMAIN ev.handled : ev.handled[i].event = k}

\* each event whose tick has come was handled once, in that tick, and no other
\* was handled; no timer of an event ticked in the Clock.tick() that handled
\* the event before it
C33_InSequence ==
    /\ \A k \in DOMAIN ev.events :
           IF ev.ticks >= C33_Due(k)
           THEN /\ Cardinality(C33_Handled(k)) = 1
                /\ \A i \in C33_Handled(k) : ev.handled[i].tick = C33_Due(k)
           ELSE C33_Handled(k) = {}
    /\ \A i \in DOMAIN ev.handled :
           \A j \in 1..(i - 1) : ev.handled[j].event < ev.handled[i].event
    /\ \A i \in DOMAIN ev.trace, j \in DOMAIN ev.trace :
           ~(/\ ev.trace[i].kind = "handle"
             /\ ev.trace[j].kind = "tick"
             /\ ev.trace[j].event = ev.trace[i].event + 1)

\* C33 as stated: after EventHandler.queue(e1, ..., en) with non-lerp events of
\* durations d1..dn, with Clock.tick() called once per frame, each event is
\* handled exactly once and in chain order, event ek being handled during the
\* tick numbered d1+...+dk after the queue call; a link's timer never ticks in
\* the same Clock.tick() in which its predecessor finished.
C33_ChainInSequence == (ev # NoChain) => C33_InSequence

\* C33, amended: the same for events that are all temp, which is the default.
C33_TempChainInSequence ==
    (ev # NoChain /\ \A k \in DOMAIN ev.events : ev.events[k].temp)
        => C33_InSequence

\* a chain of three temp events of durations 2, 1, 2, all handled: the last in
\* the fifth tick
C33_Witness ==
    /\ Len(ev.events) = 3
    /\ \A k \in 1..3 : ev.events[k].temp
    /\ ev.events[1].duration = 2
    /\ ev.events[2].duration = 1
    /\ ev.events[3].duration = 2
    /\ ev.ticks = 5
    /\ ev.handled = <<[event |-> 1, tick |-> 2], [event |-> 2, tick |-> 3],
                      [event |-> 3, tick |-> 5]>>

\* C34 as stated: no stale buffer after a transition: whenever an
\* AnimationMachine.update() call changes the state (calls set_state),
\* buffer_state is None when that update() call returns, so a buffered target
\* requested by a condition of the old state is never carried into the new
\* state.
C34_NoStaleBuffer == (Updated /\ events # <<>>) => buffer_state = None

\* the frame values of one playback cycle at which get_current_step returns
\* step i
C35_ShownAt(steps, i) ==
    {f \in 0..(get_frame_count(steps) - 1) : get_current_step(steps, f) = i}

\* C35 as stated: each step is shown for its own duration: during one full
\* playback cycle, as animation_meter.value runs over 0..frame_count-1, each
\* AnimationStep i is the step returned by get_current_step(value) (and so the
\* source of layers) for exactly duration_i of those frame values.
C35_OwnDuration ==
    (Done("get_current_step") /\ call.frame_num < get_frame_count(call.steps)) =>
        /\ call.frame_num \in C35_ShownAt(call.steps, ret)
        /\ \A i \in DOMAIN call.steps :
               Cardinality(C35_ShownAt(call.steps, i)) = call.steps[i]

\* C36 as stated: the two step lookups agree: for every Animation and every
\* frame number f in 0..frame_count-1, steps[get_step_index(f)] is the same
\* step as get_current_step(f).
C36_LookupsAgree ==
    (Done("get_step_index") /\ call.frame_num < get_frame_count(call.steps)) =>
        /\ ret \in 0..(Len(call.steps) - 1)
        /\ ret + 1 = get_current_step(call.steps, call.frame_num)

\* C37: after every Clock.tick() call returns (callbacks only calling
\* add_timers/remove_timer), to_remove is empty and every timer left in timers
\* has value > 0: temp timers that reached 0 are gone and non-temp timers that
\* reached 0 have been refilled.
C37_SettledAfterTick ==
    (tk # NoTick) =>
        /\ to_remove = <<>>
        /\ \A i \in DOMAIN timers : tm[timers[i]].value > 0
        /\ \A t \in Timers :
               Count(tk.trace, "expire", t) > 0 => ~InSeq(t, timers)

\* one tick() in which the temporary timer 1 ran out and was dropped and the
\* repeating timer 2 ran out and was refilled
C37_Witness ==
    /\ tk # NoTick
    /\ Count(tk.trace, "expire", 1) = 1
    /\ Count(tk.trace, "on_done", 2) = 1
    /\ timers = <<2>>
    /\ tm[1].value = 0
    /\ tm[2].value = tm[2].maximum
    /\ to_remove = <<>>

\* every state of the machine has an animation with a step of positive
\* duration
C38_AllAnimated ==
    \A s \in StateNames :
        /\ s \in DOMAIN animations
        /\ \E i \in DOMAIN animations[s] : animations[s][i] > 0

\* C38: playback cursor invariant: when every state of the machine has an
\* animation with at least one step of positive duration, then after
\* set_animation_machine() and any interleaving of graphics.update() and
\* AnimationMachine.update() calls, animation_meter.maximum ==
\* frame_count(animations[state]) - 1, 0 <= animation_meter.value <= maximum,
\* animation_cycles >= 0, and get_current_step(animation_meter.value) returns
\* a step (never None).
C38_PlaybackCursor ==
    C38_AllAnimated =>
        /\ animation_meter.maximum = get_frame_count(animations[state]) - 1
        /\ 0 <= animation_meter.value
        /\ animation_meter.value <= animation_meter.maximum
        /\ animation_cycles >= 0
        /\ get_current_step(animations[state], animation_meter.value)
               \in DOMAIN animations[state]

\* back in "default" by a transition of update(), with graphics.update() called
\* since until the two-frame animation wrapped and reached its last frame again
C38_Witness ==
    /\ C38_AllAnimated
    /\ state = "default"
    /\ entered_by = "update"
    /\ last.op = "graphics"
    /\ animation_cycles >= 1
    /\ animation_meter.value = 1
    /\ animation_meter.maximum = 1

\* the state set_state("default") entered from outside update() has been kept
\* for its first animation cycle, and its loop = false cue has offset 0
C39_FirstCycleOver ==
    /\ state = "default"
    /\ entered_by = "set_state"
    /\ get_frame_count(animations["default"]) >= 2
    /\ n_updates >= get_frame_count(animations["default"]) - 1
    /\ \E i \in DOMAIN sounds["default"] :
           /\ sounds["default"][i].file = "once"
           /\ ~sounds["default"][i].loop
           /\ sounds["default"][i].offset = 0

\* C39 as stated: entry cue of the initial state: for the state set by
\* set_animation_machine() (machine.set_state("default") before any frame),
\* with the per-frame order graphics.update() then AnimationMachine.update()
\* and an animation of frame count F >= 2, a cue of that state with loop = false
\* and offset 0 has play() called exactly once during the first animation
\* cycle, just as it would for a state entered by a transition during update().
C39_InitialEntryCue == C39_FirstCycleOver => plays["once"] = 1

\* C6: whenever update() is called with a buffer_state pending and
\* buffer_check() true, it sets the state to buffer_state and acts on no
\* condition, whatever the current state's condition list is.
C6_BufferPriority ==
    (Updated /\ last.buffer_state # None /\ last.cycles > 0)
        => /\ state = last.buffer_state
           /\ buffer_state = None
           /\ Len(events) = 1

\* C7: set_state(s), s a key of animations, returns with state = s,
\* animation_cycles = 0, the meter at 0 with maximum frame_count - 1,
\* buffer_state = None, and exactly one change_state event delivered, carrying
\* state = s and last_state = the state before the call.
C7_SetState ==
    (last.op = "set_state" /\ last.arg \in DOMAIN animations)
        => /\ state = last.arg
           /\ animation_cycles = 0
           /\ animation_meter.value = 0
           /\ animation_meter.maximum = get_frame_count(animations[last.arg]) - 1
           /\ buffer_state = None
           /\ Len(events) = 1
           /\ events[1].name = "change_state"
           /\ events[1].state = last.arg
           /\ events[1].last_state = last.state

\* set_state from another state, with cycles counted and a buffer pending
C7_Witness ==
    /\ last.op = "set_state"
    /\ last.arg \in DOMAIN animations
    /\ last.arg # last.state
    /\ last.buffer_state # None
    /\ last.cycles > 0
    /\ state = last.arg

\* the frames of the animation of "default"
C8_Frames == get_frame_count(animations["default"])

\* the state "default", entered by update(), has been kept for three cycles
C8_ThreeCycles ==
    /\ state = "default"
    /\ entered_by = "update"
    /\ n_updates = 3 * C8_Frames - 1

\* C8: with graphics.update() then machine.update() each frame, in a state
\* entered by a transition inside update() and kept for three animation cycles
\* (3 * frame_count machine updates, the entering one included), a cue with
\* loop = false has play() called exactly once and a cue with loop = true
\* exactly three times, whatever their offsets.
C8_SoundCues == C8_ThreeCycles => plays["once"] = 1 /\ plays["loop"] = 3

\* three cycles of an animation of several frames, the cues past frame 0
C8_Witness ==
    /\ C8_ThreeCycles
    /\ C8_Frames >= 3
    /\ \A i \in DOMAIN sounds["default"] : sounds["default"][i].offset > 0
    /\ plays["once"] = 1

\* C9: n graphics.update() calls after reset_meter(), in a state whose
\* animation has F >= 1 frames, leave animation_meter.value = n mod F and
\* animation_cycles = n div F.
C9_CycleCount ==
    state \in DOMAIN animations =>
        LET F == get_frame_count(animations[state])
        IN  F >= 1 => /\ animation_meter.value = n_updates % F
                      /\ animation_cycles = n_updates \div F

\* the meter of an animation of several frames has wrapped twice
C9_Witness ==
    /\ state \in DOMAIN animations
    /\ get_frame_count(animations[state]) >= 3
    /\ animation_cycles = 2
    /\ animation_meter.value = 1

\* the number of values of the meter
C10_Span == mt.maximum - mt.minimum + 1

\* the value `by` places on from the value before the call, modulo the span
C10_Moved(by) == mt.minimum + ((mt_call.before - mt.minimum + by) % C10_Span)

====
